---- MODULE Spec2Model ----
(***************************************************************************)
(* The DNSSEC validator of zdns (src/src/zdns/dnssec.go): per-RRset RRSIG  *)
(* verification, DNSKEY and DS retrieval through the resolver, the DS ->   *)
(* DNSKEY chain up to the embedded root anchors, and the roll-up status.   *)
(*                                                                         *)
(* The validator is a family of mutually recursive methods; each is an     *)
(* operator here, computed as the code computes it.  The DNS (what every   *)
(* DNSKEY and DS question is answered with, and which answers come from    *)
(* the cache) is the variable world; the operations are applied to inputs  *)
(* drawn from bounded sets.                                                *)
(***************************************************************************)
EXTENDS Integers, Sequences, FiniteSets, TLC

VARIABLES
    world,      \* question -> what the resolver's lookup answers for it
    op,         \* the operation that ran last ("idle" before any)
    input,      \* the input of that operation
    output      \* what the operation returned

vars == <<world, op, input, output>>

-----------------------------------------------------------------------------
(* Program constants                                                       *)

rootZone == "."
zoneSigningKeyFlag == 256
keySigningKeyFlag == 257

\* time.Now() as read by validateRRSIG; RRSIG validity windows are laid
\* around it.
Now == 2

-----------------------------------------------------------------------------
(* Bounds of the model                                                     *)

\* Nesting of resolver lookups issued from inside a validation: a lookup
\* nested deeper than this ends as the resolver's own budget ends it.
MaxNest == 8

\* Largest number of RRSIGs that cover one RRset of a validated message.
MaxSigs == 2

\* Largest number of records in an RRset handed to parseKSKsFromAnswer.
MaxKeyRRs == 2

\* Longest TXT string, in lexical pieces, the DMARC lookup is applied to.
MaxTxt == 5

\* Most command-line arguments after the program name.
MaxArgs == 3

\* Most resolvers one process constructs.
MaxResolvers == 2

\* Most calls of getDNSKEYs pending at once in the chain of lookups.
MaxPending == 5

-----------------------------------------------------------------------------
(* Records.  A resource record carries its header (name, class, type) and  *)
(* the rdata fields the validator reads.                                   *)

ClassINET == "IN"

\* Zones of the modelled DNS: the root, a TLD and a delegated zone.
TLD == "com."
Leaf == "ex.com."
Zones == {rootZone, TLD, Leaf}

Parent(z) == IF z = Leaf THEN TLD ELSE rootZone

\* Go's nil for an optional value: a sequence of length 0 or 1.
Nil == <<>>
Some(x) == <<x>>

\* An ordinary record (A, TXT, NS, ...).
RR(name, type) == [name |-> name, class |-> ClassINET, type |-> type]

\* A DNSKEY record; id stands for the public key material.
DNSKEY(name, flags, id) ==
    [name |-> name, class |-> ClassINET, type |-> "DNSKEY", flags |-> flags, id |-> id]

\* A DS record.
DS(name, tag, digestType, digest) ==
    [name |-> name, class |-> ClassINET, type |-> "DS", tag |-> tag,
     digestType |-> digestType, digest |-> digest]

\* An RRSIG record.  by is the key material that produced the signature and
\* good says whether the signature bytes fit the RRset the message delivers
\* with it (FALSE: the RRset or the signature was altered).
RRSIG(name, covered, signer, tag, incep, expir, by, good) ==
    [name |-> name, class |-> ClassINET, type |-> "RRSIG", covered |-> covered,
     signer |-> signer, tag |-> tag, incep |-> incep, expir |-> expir,
     by |-> by, good |-> good]

\* dns.DNSKEY.KeyTag(): a 16 bit checksum of the key material, so distinct
\* keys can share a tag (key material 5 shares the tag of key material 1).
TagOf == <<1, 2, 3, 4, 1>>
KeyTag(k) == TagOf[k.id]

\* The digest types dns.DNSKEY.ToDS knows: SHA1, SHA256, SHA384, SHA512.
\* GOST94 is a digest type a DS record can carry and ToDS does not know.
GOST94 == 3
SupportedDigestTypes == {1, 2, 4, 5}

\* dns.DNSKEY.ToDS(digestType): a pointer to a DS whose digest is a hash of
\* owner name and key rdata, printed as lower-case hex; nil for a digest
\* type it does not know.
ToDS(k, digestType) ==
    IF digestType \in SupportedDigestTypes THEN
        Some(DS(k.name, KeyTag(k), digestType,
                [hex |-> <<k.name, k.flags, k.id, digestType>>, letters |-> "lower"]))
    ELSE Nil

\* strings.ToUpper on a hex digest.
ToUpper(digest) == [digest EXCEPT !.letters = "upper"]

\* dns.RRSIG.ValidityPeriod(t)
ValidityPeriod(sig, t) == sig.incep <= t /\ t <= sig.expir

\* dns.RRSIG.Verify(key, rrset): the key must be the signer's key with the
\* RRSIG's key tag, and the signature must be this key's over this RRset.
Verify(sig, key) ==
    /\ sig.tag = KeyTag(key)
    /\ sig.class = key.class
    /\ sig.signer = key.name
    /\ sig.by = key.id
    /\ sig.good

\* A Go map as a function; m[k] = v overwrites.
EmptyMap == <<>>
MapPut(m, k, v) == [x \in (DOMAIN m) \cup {k} |-> IF x = k THEN v ELSE m[x]]
MapValues(m) == {m[x] : x \in DOMAIN m}

\* m[k] = append(m[k], x) on a map of slices.
MapAppend(m, k, x) == MapPut(m, k, IF k \in DOMAIN m THEN Append(m[k], x) ELSE <<x>>)

-----------------------------------------------------------------------------
(* splitRRsetsAndSigs                                                      *)

RRsetKey(name, class, type) == [Name |-> name, Class |-> class, Type |-> type]

\* The key a record is filed under: TypeCovered for an RRSIG, its own type
\* otherwise.
rrsKeyOf(rr) ==
    IF rr.type = "RRSIG" THEN RRsetKey(rr.name, rr.class, rr.covered)
    ELSE RRsetKey(rr.name, rr.class, rr.type)

IsSig(rr) == rr.type = "RRSIG"

\* The loop over the section: each record is appended to the slice under
\* its key, in the RRSIG map or in the RRset map.
RECURSIVE splitLoop(_, _, _, _)
splitLoop(rrs, i, typeToRRSets, typeToRRSigs) ==
    IF i > Len(rrs) THEN [typeToRRSets |-> typeToRRSets, typeToRRSigs |-> typeToRRSigs]
    ELSE IF IsSig(rrs[i]) THEN
        splitLoop(rrs, i + 1, typeToRRSets,
                  MapAppend(typeToRRSigs, rrsKeyOf(rrs[i]), rrs[i]))
    ELSE
        splitLoop(rrs, i + 1, MapAppend(typeToRRSets, rrsKeyOf(rrs[i]), rrs[i]),
                  typeToRRSigs)

\* splitRRsetsAndSigs filing an RRSIG under its own type.
RECURSIVE splitLoopOwnType(_, _, _, _)
splitLoopOwnType(rrs, i, typeToRRSets, typeToRRSigs) ==
    IF i > Len(rrs) THEN [typeToRRSets |-> typeToRRSets, typeToRRSigs |-> typeToRRSigs]
    ELSE IF IsSig(rrs[i]) THEN
        splitLoopOwnType(rrs, i + 1, typeToRRSets,
                         MapAppend(typeToRRSigs,
                                   RRsetKey(rrs[i].name, rrs[i].class, rrs[i].type), rrs[i]))
    ELSE
        splitLoopOwnType(rrs, i + 1, MapAppend(typeToRRSets, rrsKeyOf(rrs[i]), rrs[i]),
                         typeToRRSigs)

splitOwnType(rrs) == splitLoopOwnType(rrs, 1, EmptyMap, EmptyMap)

splitRRsetsAndSigs(rrs) == splitLoop(rrs, 1, EmptyMap, EmptyMap)

-----------------------------------------------------------------------------
(* parseKSKsFromAnswer                                                     *)

RECURSIVE parseKSKsLoop(_, _, _)
parseKSKsLoop(rrSet, i, ksks) ==
    IF i > Len(rrSet) THEN
        IF DOMAIN ksks = {} THEN
            [ksks |-> Nil, err |-> "could not find any KSK in DNSKEY RRset"]
        ELSE [ksks |-> Some(ksks), err |-> ""]
    ELSE IF rrSet[i].type # "DNSKEY" THEN
        [ksks |-> Nil, err |-> "invalid RR type in DNSKEY RRset"]
    ELSE IF rrSet[i].flags = keySigningKeyFlag THEN
        parseKSKsLoop(rrSet, i + 1, MapPut(ksks, KeyTag(rrSet[i]), rrSet[i]))
    ELSE IF rrSet[i].flags = zoneSigningKeyFlag THEN
        parseKSKsLoop(rrSet, i + 1, ksks)
    ELSE [ksks |-> Nil, err |-> "unexpected DNSKEY flag"]

parseKSKsFromAnswer(rrSet) == parseKSKsLoop(rrSet, 1, EmptyMap)

-----------------------------------------------------------------------------
(* The resolver as the validator sees it                                   *)

\* removeTrailingDotIfNotRoot: the question name of a signer domain.
removeTrailingDotIfNotRoot(name) ==
    CASE name = "com." -> "com"
      [] name = "ex.com." -> "ex.com"
      [] OTHER -> name

Question(name, type) == [Name |-> name, Type |-> type, Class |-> ClassINET]

\* What travels with every call: the trace, whether the goroutine has
\* panicked (nothing is returned then), and two records kept for the
\* properties (the questions whose answer was accepted although it carried
\* no DNSSECResult, and whether the nesting bound cut a lookup short).
AddStep(st, q) == [st EXCEPT !.trace = Append(@, [Name |-> q.Name, Type |-> q.Type])]

\* rootanchors.GetValidDSRecords(): KeyTag -> DS of the root KSK.
RootKSK == DNSKEY(rootZone, keySigningKeyFlag, 1)
RootAnchors ==
    LET ds == ToDS(RootKSK, 2)[1]
    IN  (ds.tag :> [ds EXCEPT !.digest = ToUpper(@)])

\* The failure test applied to the result of a DNSKEY or DS lookup:
\* a result without DNSSECResult passes it.
lookupRejected(res) ==
    \/ res.status # "NOERROR"
    \/ (res.DNSSECResult # Nil /\ res.DNSSECResult[1].Status # "Secure")

\* Separate DNSKEYs into KSKs and ZSKs maps based on flags.
RECURSIVE separateKeys(_, _, _, _)
separateKeys(answers, i, ksks, zsks) ==
    IF i > Len(answers) THEN [ksks |-> ksks, zsks |-> zsks]
    ELSE IF answers[i].type # "DNSKEY" THEN separateKeys(answers, i + 1, ksks, zsks)
    ELSE IF answers[i].flags = keySigningKeyFlag THEN
        separateKeys(answers, i + 1, MapPut(ksks, KeyTag(answers[i]), answers[i]), zsks)
    ELSE IF answers[i].flags = zoneSigningKeyFlag THEN
        separateKeys(answers, i + 1, ksks, MapPut(zsks, KeyTag(answers[i]), answers[i]))
    ELSE separateKeys(answers, i + 1, ksks, zsks)

\* The DS records of a DS answer, by key tag.
RECURSIVE collectDS(_, _, _)
collectDS(answers, i, dsRecords) ==
    IF i > Len(answers) THEN dsRecords
    ELSE IF answers[i].type # "DS" THEN collectDS(answers, i + 1, dsRecords)
    ELSE collectDS(answers, i + 1, MapPut(dsRecords, answers[i].tag, answers[i]))

\* actualDS is nil and actualDS.Digest is read: the KSK has an authentic DS
\* with its key tag, of a digest type ToDS does not know.
nilDeref(ksk, dsRecords) ==
    /\ KeyTag(ksk) \in DOMAIN dsRecords
    /\ ToDS(ksk, dsRecords[KeyTag(ksk)].digestType) = Nil

\* Whether a KSK's computed DS equals the authentic DS with its key tag.
dsMatches(ksk, dsRecords) ==
    /\ KeyTag(ksk) \in DOMAIN dsRecords
    /\ ToDS(ksk, dsRecords[KeyTag(ksk)].digestType) # Nil
    /\ ToUpper(ToDS(ksk, dsRecords[KeyTag(ksk)].digestType)[1].digest)
         = ToUpper(dsRecords[KeyTag(ksk)].digest)

\* The KSKs of dnskeyMap retained by validateDSRecords.
matchKSKs(dnskeyMap, dsRecords) ==
    [t \in {x \in DOMAIN dnskeyMap : dsMatches(dnskeyMap[x], dsRecords)} |-> dnskeyMap[t]]

-----------------------------------------------------------------------------
(* The per-set result and the roll-up                                      *)

\* uncoveredResult with the status left as initialised.
uncoveredResultUnset(rrsKey) ==
    [RRset |-> rrsKey, Status |-> "Indeterminate", Signature |-> Nil, Error |-> "",
     Audit |-> [from |-> "", key |-> Nil, tried |-> <<>>, looped |-> FALSE,
                dnskeyMap |-> <<>>, lookups |-> <<>>]]

\* The per-set result of an RRset no RRSIG covers.  Audit is kept for the
\* properties: where the key map came from, the key that verified, the
\* (RRSIG, key) pairs handed to Verify, whether the second loop ran and with
\* which key map, and the trace steps added while the RRset was handled.
uncoveredResult(rrsKey) ==
    [RRset |-> rrsKey, Status |-> "Insecure", Signature |-> Nil, Error |-> "",
     Audit |-> [from |-> "", key |-> Nil, tried |-> <<>>, looped |-> FALSE,
                dnskeyMap |-> <<>>, lookups |-> <<>>]]

\* coveredResult with the failure branch recording no error text.
coveredResultNoError(rrsKey, r, st0) ==
    [RRset |-> rrsKey, Status |-> IF r.sigUsed # Nil THEN "Secure" ELSE "Bogus",
     Signature |-> r.sigUsed, Error |-> "",
     Audit |-> r.audit @@
               [lookups |-> SubSeq(r.st.trace, Len(st0.trace) + 1, Len(r.st.trace))]]

\* coveredResult leaving the status as initialised when the keys of the
\* signer could not be retrieved.
coveredResultKeepsInitial(rrsKey, r, st0) ==
    IF r.sigUsed # Nil THEN
        [RRset |-> rrsKey, Status |-> "Secure", Signature |-> r.sigUsed, Error |-> "",
         Audit |-> r.audit @@
                   [lookups |-> SubSeq(r.st.trace, Len(st0.trace) + 1, Len(r.st.trace))]]
    ELSE
        [RRset |-> rrsKey,
         Status |-> IF r.err = "failed to retrieve DNSKEYs for signer domain"
                    THEN "Indeterminate" ELSE "Bogus",
         Signature |-> Nil, Error |-> r.err,
         Audit |-> r.audit @@
                   [lookups |-> SubSeq(r.st.trace, Len(st0.trace) + 1, Len(r.st.trace))]]

\* The per-set result made from what validateRRSIG returned (st0: the state
\* it was called in).
coveredResult(rrsKey, r, st0) ==
    IF r.sigUsed # Nil THEN
        [RRset |-> rrsKey, Status |-> "Secure", Signature |-> r.sigUsed, Error |-> "",
         Audit |-> r.audit @@
                   [lookups |-> SubSeq(r.st.trace, Len(st0.trace) + 1, Len(r.st.trace))]]
    ELSE
        [RRset |-> rrsKey, Status |-> "Bogus", Signature |-> Nil, Error |-> r.err,
         Audit |-> r.audit @@
                   [lookups |-> SubSeq(r.st.trace, Len(st0.trace) + 1, Len(r.st.trace))]]

Statuses(perSet) == {perSet[i].Status : i \in DOMAIN perSet}

\* DNSSECResult.populateStatus, over the Answer section's per-set results.
populateStatus(answer) ==
    IF "Bogus" \in Statuses(answer) THEN "Bogus"
    ELSE IF "Insecure" \in Statuses(answer) THEN "Insecure"
    ELSE IF Statuses(answer) \subseteq {"Secure"} THEN "Secure"
    ELSE "Indeterminate"

\* makeResult with the roll-up taken over all three sections.
makeResultAllSections(answerRes, extraRes, nsRes, v) ==
    [Answer |-> answerRes, Additionals |-> extraRes, Authoritative |-> nsRes,
     DS |-> v.ds, DNSKEY |-> v.dNSKEY,
     Status |-> populateStatus(answerRes \o extraRes \o nsRes)]

\* The DNSSECResult validate assembles from the three sections' results.
makeResult(answerRes, extraRes, nsRes, v) ==
    [Answer |-> answerRes, Additionals |-> extraRes, Authoritative |-> nsRes,
     DS |-> v.ds, DNSKEY |-> v.dNSKEY, Status |-> populateStatus(answerRes)]

\* The validator of one message.
makeDNSSECValidator(msg) == [msg |-> msg, ds |-> {}, dNSKEY |-> {}]

Message(answer, ns, extra) == [Answer |-> answer, Ns |-> ns, Extra |-> extra]

\* The order in which a section's RRsets are visited: their order of first
\* appearance, or its reverse (Go iterates a map in no fixed order).
RECURSIVE SortedSeq(_)
SortedSeq(S) ==
    IF S = {} THEN <<>>
    ELSE LET m == CHOOSE x \in S : \A y \in S : x <= y
         IN  <<m>> \o SortedSeq(S \ {m})

Reverse(s) == [i \in 1..Len(s) |-> s[Len(s) + 1 - i]]

rangeOrder(section, rev) ==
    LET firsts == {i \in DOMAIN section :
                     /\ ~IsSig(section[i])
                     /\ \A j \in 1..(i - 1) :
                          IsSig(section[j]) \/ rrsKeyOf(section[j]) # rrsKeyOf(section[i])}
        inOrder == [i \in 1..Cardinality(firsts) |-> rrsKeyOf(section[SortedSeq(firsts)[i]])]
    IN  IF rev THEN Reverse(inOrder) ELSE inOrder

-----------------------------------------------------------------------------
(* The validator                                                           *)

RECURSIVE validate(_, _, _, _)

\* Resolver.lookup for a question the validator asks: the answer the DNS
\* gives, validated in turn unless it comes from the cache.
validated(resp, r) ==
    [status |-> "NOERROR", Answers |-> resp.answers, DNSSECResult |-> Some(r.result),
     st |-> r.st]

lookup(q, st, fuel, rev) ==
    IF fuel = 0 THEN
        [status |-> "ITERATION_TIMEOUT", Answers |-> <<>>, DNSSECResult |-> Nil,
         st |-> [st EXCEPT !.cut = TRUE]]
    ELSE IF world[q].status # "NOERROR" THEN
        [status |-> world[q].status, Answers |-> <<>>, DNSSECResult |-> Nil,
         st |-> AddStep(st, q)]
    ELSE IF world[q].cached THEN
        [status |-> "NOERROR", Answers |-> world[q].answers, DNSSECResult |-> Nil,
         st |-> AddStep(st, q)]
    ELSE
        validated(world[q],
                  validate(makeDNSSECValidator(Message(world[q].answers, <<>>, <<>>)),
                           AddStep(st, q), fuel - 1, rev))

\* The answer was accepted: note it when it carried no DNSSECResult.
noteAccepted(st, q, res) ==
    IF res.DNSSECResult = Nil THEN [st EXCEPT !.nilUsed = @ \cup {q}] ELSE st

\* validateDSRecords once the authentic DS records are at hand: the KSKs
\* whose computed DS matches are retained and their DS remembered.
retainKSKs(v, dnskeyMap, dsRecords, st) ==
    LET validatedKSKs == matchKSKs(dnskeyMap, dsRecords)
    IN  IF \E t \in DOMAIN dnskeyMap : nilDeref(dnskeyMap[t], dsRecords) THEN
            [ksks |-> Nil, st |-> [st EXCEPT !.panicked = TRUE], v |-> v,
             err |-> "panic"]
        ELSE IF DOMAIN validatedKSKs = {} THEN
            [ksks |-> Nil, st |-> st, v |-> v, err |-> "no valid KSK found"]
        ELSE
            [ksks |-> Some(validatedKSKs), st |-> st,
             v |-> [v EXCEPT !.ds = @ \cup
                      {ToDS(validatedKSKs[t], dsRecords[t].digestType)[1] :
                          t \in DOMAIN validatedKSKs}],
             err |-> ""]

\* validateDSRecords for a zone other than the root, given the DS lookup's
\* result.
dsFromLookup(v, q, dnskeyMap, res) ==
    IF lookupRejected(res) THEN
        [ksks |-> Nil, st |-> res.st, v |-> v,
         err |-> "failed to get DS records for signer domain"]
    ELSE retainKSKs(v, dnskeyMap, collectDS(res.Answers, 1, EmptyMap),
                    noteAccepted(res.st, q, res))

dsQuestion(signerDomain) == Question(removeTrailingDotIfNotRoot(signerDomain), "DS")

\* validateDSRecords asking the DNS for the root's DS like any other zone's.
validateDSRecordsNoAnchors(v, signerDomain, dnskeyMap, st, fuel, rev) ==
    dsFromLookup(v, dsQuestion(signerDomain), dnskeyMap,
                 lookup(dsQuestion(signerDomain), st, fuel, rev))

validateDSRecords(v, signerDomain, dnskeyMap, st, fuel, rev) ==
    IF signerDomain = rootZone THEN retainKSKs(v, dnskeyMap, RootAnchors, st)
    ELSE dsFromLookup(v, dsQuestion(signerDomain), dnskeyMap,
                      lookup(dsQuestion(signerDomain), st, fuel, rev))

\* getDNSKEYs after validateDSRecords returned d.
keysAfterDS(zsks, d) ==
    IF d.err # "" \/ d.ksks = Nil THEN
        [ksks |-> Nil, zsks |-> Nil, st |-> d.st, v |-> d.v,
         err |-> "DS validation failed"]
    ELSE
        [ksks |-> d.ksks, zsks |-> Some(zsks), st |-> d.st, v |-> d.v, err |-> ""]

\* getDNSKEYs given the DNSKEY lookup's result.
keysFromLookup(v, signerDomain, q, res, fuel, rev) ==
    LET keys == separateKeys(res.Answers, 1, EmptyMap, EmptyMap)
    IN  IF lookupRejected(res) THEN
            [ksks |-> Nil, zsks |-> Nil, st |-> res.st, v |-> v,
             err |-> "cannot get DNSKEYs for signer domain"]
        ELSE IF DOMAIN keys.ksks = {} \/ DOMAIN keys.zsks = {} THEN
            [ksks |-> Nil, zsks |-> Nil, st |-> noteAccepted(res.st, q, res), v |-> v,
             err |-> "missing at least one KSK or ZSK in DNSKEY answer"]
        ELSE
            keysAfterDS(keys.zsks,
                        validateDSRecords(v, signerDomain, keys.ksks,
                                          noteAccepted(res.st, q, res), fuel, rev))

dnskeyQuestion(signerDomain) ==
    Question(IF signerDomain = rootZone THEN rootZone
             ELSE removeTrailingDotIfNotRoot(signerDomain), "DNSKEY")

getDNSKEYs(v, signerDomain, st, fuel, rev) ==
    keysFromLookup(v, signerDomain, dnskeyQuestion(signerDomain),
                   lookup(dnskeyQuestion(signerDomain), st, fuel, rev), fuel, rev)

\* validateRRSIG, first loop: the DNSKEYs of every RRSIG's signer; the map
\* kept is the one fetched last.
RECURSIVE fetchLoop(_, _, _, _, _, _, _, _)

\* fetchStep returning no trace with the error.
fetchStepDropsTrace(rrsigs, i, from, g, fuel, rev) ==
    IF g.err # "" THEN
        [err |-> "failed to retrieve DNSKEYs for signer domain",
         dnskeyMap |-> EmptyMap, from |-> from, st |-> [g.st EXCEPT !.trace = <<>>],
         v |-> g.v]
    ELSE fetchLoop(g.v, rrsigs, i + 1, g.zsks[1], rrsigs[i].signer, g.st, fuel, rev)

\* One round of the first loop, g being what getDNSKEYs returned.
fetchStep(rrsigs, i, from, g, fuel, rev) ==
    IF g.err # "" THEN
        [err |-> "failed to retrieve DNSKEYs for signer domain",
         dnskeyMap |-> EmptyMap, from |-> from, st |-> g.st, v |-> g.v]
    ELSE fetchLoop(g.v, rrsigs, i + 1, g.zsks[1], rrsigs[i].signer, g.st, fuel, rev)

fetchLoop(v, rrsigs, i, dnskeyMap, from, st, fuel, rev) ==
    IF i > Len(rrsigs) THEN
        [err |-> "", dnskeyMap |-> dnskeyMap, from |-> from, st |-> st, v |-> v]
    ELSE fetchStep(rrsigs, i, from, getDNSKEYs(v, rrsigs[i].signer, st, fuel, rev),
                   fuel, rev)

\* inValidity with only the expiration checked.
inValidityExpiryOnly(rrsig) == Now <= rrsig.expir

\* Whether an RRSIG is inside its validity period now.
inValidity(rrsig) == ValidityPeriod(rrsig, Now)

\* validateRRSIG, second loop: each RRSIG against the key with its key tag.
RECURSIVE verifyLoop(_, _, _, _, _)
verifyLoop(rrsigs, i, dnskeyMap, from, tried) ==
    IF i > Len(rrsigs) THEN
        [sigUsed |-> Nil, key |-> Nil, tried |-> tried,
         err |-> "could not verify any RRSIG for RRset"]
    ELSE IF ~inValidity(rrsigs[i]) THEN
        verifyLoop(rrsigs, i + 1, dnskeyMap, from, tried)
    ELSE IF rrsigs[i].tag \notin DOMAIN dnskeyMap THEN
        [sigUsed |-> Nil, key |-> Nil, tried |-> tried,
         err |-> "no matching DNSKEY found for RRSIG"]
    ELSE IF Verify(rrsigs[i], dnskeyMap[rrsigs[i].tag]) THEN
        [sigUsed |-> Some(rrsigs[i]), key |-> Some(dnskeyMap[rrsigs[i].tag]),
         tried |-> Append(tried, [sig |-> rrsigs[i], key |-> dnskeyMap[rrsigs[i].tag],
                                  from |-> from]),
         err |-> ""]
    ELSE
        verifyLoop(rrsigs, i + 1, dnskeyMap, from,
                   Append(tried, [sig |-> rrsigs[i], key |-> dnskeyMap[rrsigs[i].tag],
                                  from |-> from]))

NoAudit(from) ==
    [from |-> from, key |-> Nil, tried |-> <<>>, looped |-> FALSE, dnskeyMap |-> EmptyMap]

\* validateRRSIG after the second loop returned r: a key that verified is
\* remembered as used.
afterVerify(v, st, from, dnskeyMap, r) ==
    [sigUsed |-> r.sigUsed, st |-> st,
     v |-> [v EXCEPT !.dNSKEY = @ \cup {r.key[j] : j \in DOMAIN r.key}],
     err |-> r.err,
     audit |-> [from |-> from, key |-> r.key, tried |-> r.tried, looped |-> TRUE,
                dnskeyMap |-> dnskeyMap]]

\* validateRRSIG for an RRset of type DNSKEY, parsed being what
\* parseKSKsFromAnswer returned.
verifyWithKSKs(v, rrsigs, st, parsed) ==
    IF parsed.err # "" THEN
        [sigUsed |-> Nil, st |-> st, v |-> v,
         err |-> "failed to parse KSKs from DNSKEY answer", audit |-> NoAudit("answer")]
    ELSE afterVerify(v, st, "answer", parsed.ksks[1],
                     verifyLoop(rrsigs, 1, parsed.ksks[1], "answer", <<>>))

\* validateRRSIG for any other RRset, f being what the first loop left.
verifyWithZSKs(rrsigs, f) ==
    IF f.err # "" THEN
        [sigUsed |-> Nil, st |-> f.st, v |-> f.v, err |-> f.err, audit |-> NoAudit(f.from)]
    ELSE afterVerify(f.v, f.st, f.from, f.dnskeyMap,
                     verifyLoop(rrsigs, 1, f.dnskeyMap, f.from, <<>>))

validateRRSIG(v, rrSetType, rrSet, rrsigs, st, fuel, rev) ==
    IF rrSetType = "DNSKEY" THEN
        verifyWithKSKs(v, rrsigs, st, parseKSKsFromAnswer(rrSet))
    ELSE
        verifyWithZSKs(rrsigs, fetchLoop(v, rrsigs, 1, EmptyMap, "", st, fuel, rev))

RECURSIVE sectionLoop(_, _, _, _, _, _, _, _)

\* One round of validateSection's loop for a covered RRset.
sectionStep(split, order, i, result, st, r, fuel, rev) ==
    sectionLoop(r.v, split, order, i + 1, Append(result, coveredResult(order[i], r, st)),
                r.st, fuel, rev)

sectionLoop(v, split, order, i, result, st, fuel, rev) ==
    IF i > Len(order) THEN [result |-> result, st |-> st, v |-> v]
    ELSE IF order[i] \notin DOMAIN split.typeToRRSigs THEN
        sectionLoop(v, split, order, i + 1, Append(result, uncoveredResult(order[i])),
                    st, fuel, rev)
    ELSE
        sectionStep(split, order, i, result, st,
                    validateRRSIG(v, order[i].Type, split.typeToRRSets[order[i]],
                                  split.typeToRRSigs[order[i]], st, fuel, rev),
                    fuel, rev)

validateSection(v, section, st, fuel, rev) ==
    sectionLoop(v, splitRRsetsAndSigs(section), rangeOrder(section, rev), 1, <<>>,
                st, fuel, rev)

\* validate from the second section on: a and e are the results of the
\* sections validated so far.
validateNs(a, e, n) ==
    [result |-> makeResult(a.result, e.result, n.result, n.v), st |-> n.st]

validateExtra(msg, a, e, fuel, rev) ==
    validateNs(a, e, validateSection(e.v, msg.Ns, e.st, fuel, rev))

validateAnswer(msg, a, fuel, rev) ==
    validateExtra(msg, a, validateSection(a.v, msg.Extra, a.st, fuel, rev), fuel, rev)

validate(v, st, fuel, rev) ==
    validateAnswer(v.msg, validateSection(v, v.msg.Answer, st, fuel, rev), fuel, rev)

-----------------------------------------------------------------------------
(* The DNS the validator runs against                                      *)

Response(status, cached, answers) ==
    [status |-> status, cached |-> cached, answers |-> answers]

\* A zone's DNSKEY RRset with its RRSIG: KSK 1 signs, ZSK 2 signs the data.
honestKeys(z, good) ==
    <<DNSKEY(z, keySigningKeyFlag, 1), DNSKEY(z, zoneSigningKeyFlag, 2),
      RRSIG(z, "DNSKEY", z, 1, 1, 3, 1, good)>>

\* A forged DNSKEY RRset: the zone's real KSK 1 is copied into it, but the
\* RRset is signed by KSK 3 and carries ZSK 4, both the forger's.
forgedKeys(z) ==
    <<DNSKEY(z, keySigningKeyFlag, 1), DNSKEY(z, keySigningKeyFlag, 3),
      DNSKEY(z, zoneSigningKeyFlag, 4), RRSIG(z, "DNSKEY", z, 3, 1, 3, 3, TRUE)>>

\* The DS RRset of z at its parent, for key material id, signed by the
\* parent's ZSK; letters is the case the digest is printed in.
dsAnswer(z, id, letters) ==
    LET ds == ToDS(DNSKEY(z, keySigningKeyFlag, id), 2)[1]
    IN  <<[ds EXCEPT !.digest.letters = letters],
          RRSIG(z, "DS", Parent(z), 2, 1, 3, 2, TRUE)>>

\* The DS RRset of z with a GOST digest, under the key tag of z's KSK.
dsAnswerGOST(z) ==
    <<DS(z, KeyTag(DNSKEY(z, keySigningKeyFlag, 1)), GOST94,
         [hex |-> <<z, keySigningKeyFlag, 1, GOST94>>, letters |-> "upper"]),
      RRSIG(z, "DS", Parent(z), 2, 1, 3, 2, TRUE)>>

\* The DS RRset of z with an RRSIG that names signer, z itself or a zone
\* below it, as its signer.
dsAnswerSignedBy(z, signer) ==
    <<ToDS(DNSKEY(z, keySigningKeyFlag, 1), 2)[1],
      RRSIG(z, "DS", signer, 2, 1, 3, 2, TRUE)>>

LeafDNSKEYResponses ==
    {Response("NOERROR", c, a) :
        c \in BOOLEAN, a \in {honestKeys(Leaf, TRUE), honestKeys(Leaf, FALSE), forgedKeys(Leaf)}}
    \cup {Response("SERVFAIL", FALSE, <<>>)}

LeafDSResponses ==
    {Response("NOERROR", c, a) :
        c \in BOOLEAN, a \in {dsAnswer(Leaf, 1, "upper"), dsAnswer(Leaf, 5, "lower")}}
    \cup {Response("NOERROR", FALSE, <<>>), Response("SERVFAIL", FALSE, <<>>),
          Response("NOERROR", FALSE, dsAnswerGOST(Leaf))}

TLDResponses ==
    {[dnskey |-> Response("NOERROR", FALSE, honestKeys(TLD, TRUE)),
      ds |-> Response("NOERROR", FALSE, dsAnswer(TLD, 1, "lower"))],
     [dnskey |-> Response("SERVFAIL", FALSE, <<>>),
      ds |-> Response("NOERROR", FALSE, dsAnswer(TLD, 1, "lower"))],
     [dnskey |-> Response("NOERROR", FALSE, honestKeys(TLD, TRUE)),
      ds |-> Response("NOERROR", FALSE, <<>>)]}

Questions ==
    {Question(removeTrailingDotIfNotRoot(z), t) : z \in Zones, t \in {"DNSKEY", "DS"}}

World(leafKey, leafDS, tld) ==
    [q \in Questions |->
        CASE q = Question("ex.com", "DNSKEY") -> leafKey
          [] q = Question("ex.com", "DS") -> leafDS
          [] q = Question("com", "DNSKEY") -> tld.dnskey
          [] q = Question("com", "DS") -> tld.ds
          [] q = Question(rootZone, "DNSKEY") ->
                Response("NOERROR", FALSE, honestKeys(rootZone, TRUE))
          [] OTHER -> Response("NOERROR", FALSE, <<>>)]

-----------------------------------------------------------------------------
(* The messages validated                                                  *)

\* RRSIGs that may cover the A RRset of the leaf zone.
SigPool ==
    {RRSIG(Leaf, "A", Leaf, 2, 1, 3, 2, TRUE),      \* the zone's ZSK, in validity
     RRSIG(Leaf, "A", Leaf, 2, 0, 1, 2, TRUE),      \* expired
     RRSIG(Leaf, "A", Leaf, 3, 3, 4, 3, TRUE),      \* not yet valid, key absent
     RRSIG(Leaf, "A", Leaf, 2, 1, 3, 2, FALSE),     \* does not fit the RRset
     RRSIG(Leaf, "A", TLD, 2, 1, 3, 2, TRUE),       \* signed by the parent's ZSK
     RRSIG(Leaf, "A", Leaf, 4, 1, 3, 4, TRUE)}      \* signed by the forger's ZSK

SeqsUpTo(S, n) == UNION {[1..k -> S] : k \in 0..n}

AnswersA == {<<RR(Leaf, "A")>> \o sigs : sigs \in SeqsUpTo(SigPool, MaxSigs)}

\* A second RRset at the same name: unsigned, signed, or altered.
TXTSets ==
    {<<RR(Leaf, "TXT")>>,
     <<RR(Leaf, "TXT"), RRSIG(Leaf, "TXT", Leaf, 2, 1, 3, 2, TRUE)>>,
     <<RRSIG(Leaf, "TXT", Leaf, 2, 1, 3, 2, FALSE), RR(Leaf, "TXT")>>,
     <<RR(Leaf, "TXT"), [RRSIG(Leaf, "TXT", Leaf, 2, 1, 3, 2, TRUE) EXCEPT !.class = "CH"],
       RRSIG(Leaf, "MX", Leaf, 2, 1, 3, 2, TRUE)>>}

NSSets ==
    {<<>>,
     <<RR(Leaf, "NS")>>,
     <<RR(Leaf, "NS"), RRSIG(Leaf, "NS", Leaf, 2, 1, 3, 2, FALSE)>>}

GlueSets ==
    {<<>>,
     <<RR(TLD, "A"), RRSIG(TLD, "A", TLD, 2, 1, 3, 2, TRUE), RR(TLD, "AAAA")>>}

\* DNSKEY RRsets asked for directly.
DNSKEYAnswers ==
    {honestKeys(Leaf, TRUE), honestKeys(Leaf, FALSE), forgedKeys(Leaf),
     <<DNSKEY(Leaf, keySigningKeyFlag, 3), RRSIG(Leaf, "DNSKEY", Leaf, 3, 1, 3, 3, TRUE)>>,
     <<DNSKEY(Leaf, keySigningKeyFlag, 1), DNSKEY(Leaf, 0, 2),
       RRSIG(Leaf, "DNSKEY", Leaf, 1, 1, 3, 1, TRUE)>>,
     <<DNSKEY(Leaf, zoneSigningKeyFlag, 2), RRSIG(Leaf, "DNSKEY", Leaf, 2, 1, 3, 2, TRUE)>>,
     <<DNSKEY(Leaf, keySigningKeyFlag, 1)>>}

Messages ==
    {Message(a, <<>>, <<>>) : a \in AnswersA \cup DNSKEYAnswers \cup {<<>>}}
    \cup {Message(a \o t, n, e) :
            a \in {<<>>, <<RR(Leaf, "A")>>,
                   <<RR(Leaf, "A"), RRSIG(Leaf, "A", Leaf, 2, 1, 3, 2, TRUE)>>},
            t \in TXTSets, n \in NSSets, e \in GlueSets}

\* Whether the order of the map iteration can show: some section holds
\* more than one RRset.
ManySets(msg) ==
    \E sec \in {msg.Answer, msg.Ns, msg.Extra} : Len(rangeOrder(sec, FALSE)) > 1

\* Inputs of parseKSKsFromAnswer.
KeyRRPool ==
    {DNSKEY(Leaf, keySigningKeyFlag, 1), DNSKEY(Leaf, keySigningKeyFlag, 3),
     DNSKEY(Leaf, keySigningKeyFlag, 5), DNSKEY(Leaf, zoneSigningKeyFlag, 2),
     DNSKEY(Leaf, 0, 4), RR(Leaf, "A")}

KeyRRSets == SeqsUpTo(KeyRRPool, MaxKeyRRs)

-----------------------------------------------------------------------------
(* DoNSLookup (src/pkg/refactored_zdns/nslookup.go)                        *)

\* An element of a result's Answers or Additional: an Answer, or a value of
\* another type (isAnswer FALSE), which the type assertion skips.
NSAnswer(name, type, answer) ==
    [isAnswer |-> TRUE, Name |-> name, Type |-> type, Answer |-> answer, Ttl |-> 300]

OtherAnswer(name) ==
    [isAnswer |-> FALSE, Name |-> name, Type |-> "MX", Answer |-> "", Ttl |-> 300]

\* strings.TrimSuffix(name, ".") on the names of the model.
TrimSuffixDot(name) ==
    CASE name = "ns1.ex.com." -> "ns1.ex.com"
      [] name = "ns2.ex.com." -> "ns2.ex.com"
      [] name = "ex.com." -> "ex.com"
      [] OTHER -> name

\* VerifyAddress: whether the text is an address of the family the type
\* names.
VerifyAddress(type, text) ==
    CASE type = "A" -> text \in {"192.0.2.1", "192.0.2.2"}
      [] type = "AAAA" -> text \in {"2001:db8::1"}
      [] OTHER -> TRUE

\* The addresses of the Additional section, by record name.
RECURSIVE glueLoop(_, _, _, _)
glueLoop(additional, i, ipv4s, ipv6s) ==
    IF i > Len(additional) THEN [ipv4s |-> ipv4s, ipv6s |-> ipv6s]
    ELSE IF ~additional[i].isAnswer THEN glueLoop(additional, i + 1, ipv4s, ipv6s)
    ELSE IF ~VerifyAddress(additional[i].Type, additional[i].Answer) THEN
        glueLoop(additional, i + 1, ipv4s, ipv6s)
    ELSE IF additional[i].Type = "A" THEN
        glueLoop(additional, i + 1,
                 MapAppend(ipv4s, TrimSuffixDot(additional[i].Name), additional[i].Answer),
                 ipv6s)
    ELSE IF additional[i].Type = "AAAA" THEN
        glueLoop(additional, i + 1, ipv4s,
                 MapAppend(ipv6s, TrimSuffixDot(additional[i].Name), additional[i].Answer))
    ELSE glueLoop(additional, i + 1, ipv4s, ipv6s)

\* Resolver.DoTargetedLookup for a name server's addresses: what it
\* returns is decided by the DNS, name by name (targeted[name]: "ok",
\* "ipv4 only", "fail"); it returns no result when it found no address;
\* its trace holds the steps of the address lookups made, failed or not.
TargetedStep(name, type) == [Name |-> name, Type |-> type]

DoTargetedLookup(name, findIpv4, findIpv6, targeted) ==
    LET ipv4 == IF findIpv4 /\ targeted[name] \in {"ok", "ipv4 only"} THEN <<"192.0.2.9">>
                ELSE <<>>
        ipv6 == IF findIpv6 /\ targeted[name] = "ok" THEN <<"2001:db8::9">> ELSE <<>>
    IN  [res |-> IF ipv4 = <<>> /\ ipv6 = <<>> THEN Nil
                 ELSE Some([IPv4Addresses |-> ipv4, IPv6Addresses |-> ipv6]),
         trace |-> (IF findIpv4 THEN <<TargetedStep(name, "A")>> ELSE <<>>)
                   \o (IF findIpv6 THEN <<TargetedStep(name, "AAAA")>> ELSE <<>>)]

\* nsRecord taking the glue of a family whether or not it was asked for.
nsRecordAnyGlue(a, glue, lookupIpv4, lookupIpv6, targeted) ==
    LET name == TrimSuffixDot(a.Answer)
        findIpv4 == lookupIpv4 /\ name \notin DOMAIN glue.ipv4s
        findIpv6 == lookupIpv6 /\ name \notin DOMAIN glue.ipv6s
        t == DoTargetedLookup(name, findIpv4, findIpv6, targeted)
        fromGlue4 == IF name \in DOMAIN glue.ipv4s THEN glue.ipv4s[name] ELSE <<>>
        fromGlue6 == IF name \in DOMAIN glue.ipv6s THEN glue.ipv6s[name] ELSE <<>>
        asks == findIpv4 \/ findIpv6
    IN  [rec |-> [Name |-> name, Type |-> a.Type, TTL |-> a.Ttl,
                  IPv4Addresses |-> IF asks /\ t.res # Nil /\ findIpv4
                                    THEN t.res[1].IPv4Addresses ELSE fromGlue4,
                  IPv6Addresses |-> IF asks /\ t.res # Nil /\ findIpv6
                                    THEN t.res[1].IPv6Addresses ELSE fromGlue6],
         added |-> IF asks THEN t.trace ELSE <<>>,
         asked |-> IF asks THEN <<[name |-> name, ipv4 |-> findIpv4, ipv6 |-> findIpv6]>>
                   ELSE <<>>]

\* One NS record of the answer: its addresses from the glue, or from a
\* targeted lookup for the families the glue lacks.
nsRecord(a, glue, lookupIpv4, lookupIpv6, targeted) ==
    LET name == TrimSuffixDot(a.Answer)
        findIpv4 == lookupIpv4 /\ name \notin DOMAIN glue.ipv4s
        findIpv6 == lookupIpv6 /\ name \notin DOMAIN glue.ipv6s
        t == DoTargetedLookup(name, findIpv4, findIpv6, targeted)
        fromGlue4 == IF lookupIpv4 /\ name \in DOMAIN glue.ipv4s THEN glue.ipv4s[name]
                     ELSE <<>>
        fromGlue6 == IF lookupIpv6 /\ name \in DOMAIN glue.ipv6s THEN glue.ipv6s[name]
                     ELSE <<>>
        asks == findIpv4 \/ findIpv6
    IN  [rec |-> [Name |-> name, Type |-> a.Type, TTL |-> a.Ttl,
                  IPv4Addresses |-> IF asks /\ t.res # Nil /\ findIpv4
                                    THEN t.res[1].IPv4Addresses ELSE fromGlue4,
                  IPv6Addresses |-> IF asks /\ t.res # Nil /\ findIpv6
                                    THEN t.res[1].IPv6Addresses ELSE fromGlue6],
         added |-> IF asks THEN t.trace ELSE <<>>,
         asked |-> IF asks THEN <<[name |-> name, ipv4 |-> findIpv4, ipv6 |-> findIpv6]>>
                   ELSE <<>>]

\* The loop ending with the status of the first address lookup that fails.
RECURSIVE nsLoopFailFast(_, _, _, _, _, _, _, _, _)
nsLoopFailFast(answers, i, glue, lookupIpv4, lookupIpv6, targeted, servers, trace, asked) ==
    IF i > Len(answers) THEN
        [retv |-> [Servers |-> servers], trace |-> trace, status |-> "NOERROR",
         err |-> "", asked |-> asked]
    ELSE IF ~answers[i].isAnswer \/ answers[i].Type # "NS" THEN
        nsLoopFailFast(answers, i + 1, glue, lookupIpv4, lookupIpv6, targeted, servers,
                       trace, asked)
    ELSE
        LET r == nsRecord(answers[i], glue, lookupIpv4, lookupIpv6, targeted)
        IN  IF r.asked # <<>> /\ r.rec.IPv4Addresses = <<>> /\ r.rec.IPv6Addresses = <<>>
            THEN [retv |-> [Servers |-> servers], trace |-> trace, status |-> "SERVFAIL",
                  err |-> "", asked |-> asked \o r.asked]
            ELSE nsLoopFailFast(answers, i + 1, glue, lookupIpv4, lookupIpv6, targeted,
                                Append(servers, r.rec), trace \o r.added, asked \o r.asked)

\* The loop over the answers; asked records the targeted lookups issued.
RECURSIVE nsLoop(_, _, _, _, _, _, _, _, _)
nsLoop(answers, i, glue, lookupIpv4, lookupIpv6, targeted, servers, trace, asked) ==
    IF i > Len(answers) THEN
        [retv |-> [Servers |-> servers], trace |-> trace, status |-> "NOERROR",
         err |-> "", asked |-> asked]
    ELSE IF ~answers[i].isAnswer \/ answers[i].Type # "NS" THEN
        nsLoop(answers, i + 1, glue, lookupIpv4, lookupIpv6, targeted, servers, trace, asked)
    ELSE
        LET r == nsRecord(answers[i], glue, lookupIpv4, lookupIpv6, targeted)
        IN  nsLoop(answers, i + 1, glue, lookupIpv4, lookupIpv6, targeted,
                   Append(servers, r.rec), trace \o r.added, asked \o r.asked)

\* DoNSLookup looking at the status only.
DoNSLookupStatusOnly(ns, lookupIpv4, lookupIpv6, targeted) ==
    IF ns.status # "NOERROR" THEN
        [retv |-> [Servers |-> <<>>], trace |-> ns.trace, status |-> ns.status,
         err |-> ns.err, asked |-> <<>>]
    ELSE nsLoop(ns.res.Answers, 1, glueLoop(ns.res.Additional, 1, EmptyMap, EmptyMap),
                lookupIpv4, lookupIpv6, targeted, <<>>, ns.trace, <<>>)

\* ns is what doSingleNameServerLookup returned for the NS question.
DoNSLookup(ns, lookupIpv4, lookupIpv6, targeted) ==
    IF ns.status # "NOERROR" \/ ns.err # "" THEN
        [retv |-> [Servers |-> <<>>], trace |-> ns.trace, status |-> ns.status,
         err |-> ns.err, asked |-> <<>>]
    ELSE nsLoop(ns.res.Answers, 1, glueLoop(ns.res.Additional, 1, EmptyMap, EmptyMap),
                lookupIpv4, lookupIpv6, targeted, <<>>, ns.trace, <<>>)

\* What the NS lookup can return.
NSAnswerSets ==
    {<<>>,
     <<NSAnswer("ex.com.", "NS", "ns1.ex.com.")>>,
     <<NSAnswer("ex.com.", "CNAME", "www.ex.com."), OtherAnswer("ex.com."),
       NSAnswer("ex.com.", "NS", "ns1.ex.com."), NSAnswer("ex.com.", "NS", "ns2.ex.com.")>>}

NSGlueSets ==
    {<<>>,
     <<NSAnswer("ns1.ex.com.", "A", "192.0.2.1"), NSAnswer("ns1.ex.com.", "A", "192.0.2.2")>>,
     <<NSAnswer("ns1.ex.com.", "A", "not an address"), OtherAnswer("ns1.ex.com."),
       NSAnswer("ns1.ex.com.", "AAAA", "2001:db8::1"), NSAnswer("ns2.ex.com.", "A", "192.0.2.2")>>}

NSOutcomes ==
    {[status |-> "NOERROR", err |-> ""], [status |-> "SERVFAIL", err |-> ""],
     [status |-> "TIMEOUT", err |-> "i/o timeout"], [status |-> "NOERROR", err |-> "truncated"]}

\* What the address lookups for the name servers can return.
TargetedOutcomes == [{"ns1.ex.com", "ns2.ex.com"} -> {"ok", "ipv4 only", "fail"}]

-----------------------------------------------------------------------------
(* The state machine                                                       *)

InitSt == [trace |-> <<>>, nilUsed |-> {}, cut |-> FALSE, panicked |-> FALSE]

\* A call that panicked returns nothing.
Panic == [panic |-> "invalid memory address or nil pointer dereference"]

returned(r) == IF r.st.panicked THEN Panic ELSE r

Init ==
    /\ \E k \in LeafDNSKEYResponses, d \in LeafDSResponses, t \in TLDResponses :
          world = World(k, d, t)
    /\ op = "idle"
    /\ input = <<>>
    /\ output = <<>>

\* One message is validated: dNSSECValidator.validate.
Validate ==
    /\ op = "idle"
    /\ \E msg \in Messages, rev \in BOOLEAN :
          /\ rev => ManySets(msg)
          /\ input' = [msg |-> msg, rev |-> rev]
          /\ output' = returned(validate(makeDNSSECValidator(msg), InitSt, MaxNest, rev))
          /\ op' = IF output' = Panic THEN "validate: panic" ELSE "validate"
    /\ UNCHANGED world

\* parseKSKsFromAnswer is applied to an RRset.
ParseKSKs ==
    /\ op = "idle"
    /\ \E rrSet \in KeyRRSets :
          /\ op' = "parseKSKs"
          /\ input' = rrSet
          /\ output' = parseKSKsFromAnswer(rrSet)
    /\ UNCHANGED world

\* The traces a call can start from: nothing yet, or the step of the
\* question whose answer is being validated.
StartSts == {InitSt, AddStep(InitSt, Question("ex.com", "A"))}

\* KSK maps handed to validateDSRecords for a zone: by key tag, so of two
\* keys with one tag a map holds one.
KSKMaps(z) ==
    {EmptyMap,
     (1 :> DNSKEY(z, keySigningKeyFlag, 1)),
     (1 :> DNSKEY(z, keySigningKeyFlag, 5)),
     (3 :> DNSKEY(z, keySigningKeyFlag, 3)),
     (1 :> DNSKEY(z, keySigningKeyFlag, 1)) @@ (3 :> DNSKEY(z, keySigningKeyFlag, 3))}

\* validateDSRecords is applied to a signer zone and a KSK map.
ValidateDS ==
    /\ op = "idle"
    /\ \E z \in Zones, st0 \in StartSts :
          \E m \in KSKMaps(z) :
              /\ input' = [signerDomain |-> z, dnskeyMap |-> m, st |-> st0]
              /\ output' = returned(validateDSRecords(makeDNSSECValidator(Message(<<>>, <<>>, <<>>)),
                                                      z, m, st0, MaxNest, FALSE))
              /\ op' = IF output' = Panic THEN "validateDSRecords: panic"
                       ELSE "validateDSRecords"
    /\ UNCHANGED world

\* getDNSKEYs is applied to a signer zone.
GetDNSKEYs ==
    /\ op = "idle"
    /\ \E z \in Zones, st0 \in StartSts :
          /\ input' = [signerDomain |-> z, st |-> st0]
          /\ output' = returned(getDNSKEYs(makeDNSSECValidator(Message(<<>>, <<>>, <<>>)),
                                           z, st0, MaxNest, FALSE))
          /\ op' = IF output' = Panic THEN "getDNSKEYs: panic" ELSE "getDNSKEYs"
    /\ UNCHANGED world

\* The step a call made below the top starts from.
Traced == AddStep(InitSt, Question("ex.com", "A"))

\* validateRRSIG is applied to the A RRset of the leaf zone and RRSIGs.
ValidateRRSIG ==
    /\ op = "idle"
    /\ \E rrsigs \in SeqsUpTo(SigPool, MaxSigs) \ {<<>>} :
          /\ input' = [rrSet |-> <<RR(Leaf, "A")>>, rrsigs |-> rrsigs, st |-> Traced]
          /\ output' = returned(validateRRSIG(makeDNSSECValidator(Message(<<>>, <<>>, <<>>)),
                                              "A", <<RR(Leaf, "A")>>, rrsigs, Traced,
                                              MaxNest, FALSE))
          /\ op' = IF output' = Panic THEN "validateRRSIG: panic" ELSE "validateRRSIG"
    /\ UNCHANGED world

\* Messages with records in every section.
FullMessages ==
    {Message(<<RR(Leaf, "A"), RRSIG(Leaf, "A", Leaf, 2, 1, 3, 2, TRUE)>> \o t, n, e) :
        t \in TXTSets, n \in NSSets \ {<<>>}, e \in GlueSets \ {<<>>}}

\* validateSection is applied to a section of a message.
ValidateSection ==
    /\ op = "idle"
    /\ \E msg \in FullMessages : \E section \in {msg.Answer, msg.Ns, msg.Extra} :
          /\ input' = [section |-> section, st |-> Traced]
          /\ output' = returned(validateSection(makeDNSSECValidator(msg), section, Traced,
                                                MaxNest, FALSE))
          /\ op' = IF output' = Panic THEN "validateSection: panic" ELSE "validateSection"
    /\ UNCHANGED world

\* validate is applied below the top: the trace it receives holds the step
\* of the question that was answered with the message.
ValidateTraced ==
    /\ op = "idle"
    /\ \E msg \in FullMessages :
          /\ input' = [msg |-> msg, st |-> Traced]
          /\ output' = returned(validate(makeDNSSECValidator(msg), Traced, MaxNest, FALSE))
          /\ op' = IF output' = Panic THEN "validate below: panic" ELSE "validate below"
    /\ UNCHANGED world

\* Sections handed to splitRRsetsAndSigs: those of the messages, and one
\* with a record delivered twice and RRSIGs between the records.
SplitInputs ==
    UNION {{msg.Answer, msg.Ns, msg.Extra} : msg \in FullMessages}
    \cup DNSKEYAnswers
    \cup {<<RRSIG(Leaf, "TXT", Leaf, 2, 1, 3, 2, TRUE), RR(Leaf, "A"),
            RRSIG(Leaf, "A", Leaf, 2, 1, 3, 2, TRUE), RR(Leaf, "TXT"), RR(Leaf, "A"),
            RRSIG(Leaf, "A", TLD, 2, 1, 3, 2, TRUE), RR(TLD, "A"),
            RRSIG(Leaf, "TXT", Leaf, 2, 1, 3, 2, TRUE)>>}

\* splitRRsetsAndSigs is applied to a section.
Split ==
    /\ op = "idle"
    /\ \E rrs \in SplitInputs :
          /\ op' = "splitRRsetsAndSigs"
          /\ input' = rrs
          /\ output' = splitRRsetsAndSigs(rrs)
    /\ UNCHANGED world

\* DoNSLookup is applied to what the NS lookup returned.
NSLookup ==
    /\ op = "idle"
    /\ \E o \in NSOutcomes, answers \in NSAnswerSets, glue \in NSGlueSets,
          lookupIpv4 \in BOOLEAN, lookupIpv6 \in BOOLEAN, targeted \in TargetedOutcomes :
          /\ op' = "DoNSLookup"
          /\ input' = [ns |-> [res |-> [Answers |-> answers, Additional |-> glue],
                               trace |-> <<[Name |-> "ex.com", Type |-> "NS"]>>,
                               status |-> o.status, err |-> o.err],
                       lookupIpv4 |-> lookupIpv4, lookupIpv6 |-> lookupIpv6,
                       targeted |-> targeted]
          /\ output' = DoNSLookup(input'.ns, lookupIpv4, lookupIpv6, targeted)
    /\ UNCHANGED world

Next ==
    \/ Validate \/ ParseKSKs \/ ValidateDS \/ GetDNSKEYs
    \/ ValidateRRSIG \/ ValidateSection \/ ValidateTraced
    \/ NSLookup \/ Split

Spec == Init /\ [][Next]_vars

-----------------------------------------------------------------------------
(* What the properties read                                                *)

\* The sections of the validated message, each with its per-set results.
Sections ==
    {[rrs |-> input.msg.Answer, res |-> output.result.Answer],
     [rrs |-> input.msg.Extra, res |-> output.result.Additionals],
     [rrs |-> input.msg.Ns, res |-> output.result.Authoritative]}

\* Every per-set result of the validation, with the RRSIGs that cover its
\* RRset in its section (none: the empty sequence).
coveringSigs(rrs, rrsKey) ==
    IF rrsKey \in DOMAIN splitRRsetsAndSigs(rrs).typeToRRSigs
    THEN splitRRsetsAndSigs(rrs).typeToRRSigs[rrsKey]
    ELSE <<>>

PerSets ==
    UNION {{[p |-> s.res[i], rrsigs |-> coveringSigs(s.rrs, s.res[i].RRset)] :
               i \in DOMAIN s.res} : s \in Sections}

\* The DS records the DNS holds for a zone (the root's are the anchors).
AuthenticDS(z) ==
    IF z = rootZone THEN RootAnchors
    ELSE IF world[dsQuestion(z)].status = "NOERROR"
         THEN collectDS(world[dsQuestion(z)].answers, 1, EmptyMap)
         ELSE EmptyMap

\* The zones whose DNSKEY and DS answers a key of zone z rests on.
ChainOf(z) ==
    IF z = Leaf THEN {Leaf, TLD, rootZone}
    ELSE IF z = TLD THEN {TLD, rootZone}
    ELSE {rootZone}

\* Every zone is correctly signed, delegated with a matching DS, and
\* nothing is answered from the cache.
HonestDNS ==
    /\ world[dnskeyQuestion(Leaf)] = Response("NOERROR", FALSE, honestKeys(Leaf, TRUE))
    /\ world[dsQuestion(Leaf)] = Response("NOERROR", FALSE, dsAnswer(Leaf, 1, "upper"))
    /\ world[dnskeyQuestion(TLD)] = Response("NOERROR", FALSE, honestKeys(TLD, TRUE))
    /\ world[dsQuestion(TLD)] = Response("NOERROR", FALSE, dsAnswer(TLD, 1, "lower"))

\* An RRSIG's validity period contains the time of validation.
InWindow(sig) == sig.incep <= Now /\ Now <= sig.expir

Range(seq) == {seq[i] : i \in DOMAIN seq}

-----------------------------------------------------------------------------
(* C1 *)

\* The key that verified is chained: a KSK whose computed DS matches a DS
\* of its zone, or a ZSK returned by getDNSKEYs for its zone (whose KSKs
\* passed validateDSRecords).
Chained(p) ==
    \/ /\ p.Audit.key[1].flags = keySigningKeyFlag
       /\ dsMatches(p.Audit.key[1], AuthenticDS(p.Audit.key[1].name))
    \/ /\ p.Audit.key[1].flags = zoneSigningKeyFlag
       /\ p.Audit.from = p.Audit.key[1].name

\* C1: every RRset marked Secure, of any type, was verified by a key that
\* is chained to the root anchors: a KSK that matched a DS of the signer
\* zone, or a ZSK from a DNSKEY answer whose KSKs passed the DS check.
C1_SecureKeyIsChained ==
    op = "validate" =>
        \A x \in PerSets : x.p.Status = "Secure" => Chained(x.p)

-----------------------------------------------------------------------------
(* C3 *)

\* C3: every RRSIG of a non-DNSKEY RRset is verified with a ZSK taken from
\* the DNSKEY answer of that RRSIG's own SignerName, never with one from the
\* ZSK map of another RRSIG's signer (stated for a DNS in which every zone
\* is correctly signed and delegated).
C3_KeyOfOwnSigner ==
    (op = "validate" /\ HonestDNS) =>
        \A x \in PerSets :
            x.p.RRset.Type # "DNSKEY" =>
                \A i \in DOMAIN x.p.Audit.tried :
                    x.p.Audit.tried[i].from = x.p.Audit.tried[i].sig.signer

-----------------------------------------------------------------------------
(* C4 *)

\* What getDNSKEYs returns for a signer when asked on its own.
KeysOf(signer) == getDNSKEYs(makeDNSSECValidator(input.msg), signer, InitSt, MaxNest, FALSE)

\* An RRSIG that is in validity, whose signer's DNSKEY answer holds a ZSK
\* with its key tag, and that verifies with that ZSK.
Verifiable(sig) ==
    /\ InWindow(sig)
    /\ KeysOf(sig.signer).err = ""
    /\ sig.tag \in DOMAIN KeysOf(sig.signer).zsks[1]
    /\ Verify(sig, KeysOf(sig.signer).zsks[1][sig.tag])

\* C4: an RRset one of whose RRSIGs is verifiable is marked Secure,
\* whatever the position of that RRSIG and whatever the other RRSIGs are
\* (stated for a DNS in which every zone is correctly signed and delegated,
\* and for RRsets all of whose RRSIGs name the same signer).
C4_OneVerifiableSigSuffices ==
    (op = "validate" /\ HonestDNS) =>
        \A x \in PerSets :
            (/\ x.p.RRset.Type # "DNSKEY"
             /\ \A i, j \in DOMAIN x.rrsigs : x.rrsigs[i].signer = x.rrsigs[j].signer
             /\ \E i \in DOMAIN x.rrsigs : Verifiable(x.rrsigs[i]))
            => x.p.Status = "Secure"

-----------------------------------------------------------------------------
(* C5 *)

\* C5: no RRset is marked Secure with keys that rest on a DNSKEY or DS
\* answer that carried no DNSSECResult (a cache hit) and was used as it
\* came, without being validated first.
C5_CacheHitsAreValidated ==
    op = "validate" =>
        \A x \in PerSets :
            (x.p.Status = "Secure" /\ x.p.Audit.from \in Zones) =>
                \A z \in ChainOf(x.p.Audit.from) :
                    /\ dnskeyQuestion(z) \notin output.st.nilUsed
                    /\ dsQuestion(z) \notin output.st.nilUsed

-----------------------------------------------------------------------------
(* C6 *)

\* The leaf zone is correctly signed and its parent holds no DS for it.
LeafWithoutDS ==
    /\ world[dnskeyQuestion(Leaf)] = Response("NOERROR", FALSE, honestKeys(Leaf, TRUE))
    /\ world[dsQuestion(Leaf)] = Response("NOERROR", FALSE, <<>>)

\* An RRSIG of the leaf zone's ZSK, in validity, that fits the RRset.
SignedByLeaf(sig) ==
    /\ sig.signer = Leaf /\ sig.by = 2 /\ sig.tag = 2 /\ sig.good
    /\ InWindow(sig)

\* C6: with the DS of a correctly signed zone absent at the parent, an
\* RRset signed by that zone is Insecure, and so is the roll-up of an
\* answer that holds only such RRsets.
C6_NoDSIsInsecure ==
    (op = "validate" /\ LeafWithoutDS) =>
        /\ \A i \in DOMAIN output.result.Answer :
              (\A j \in DOMAIN coveringSigs(input.msg.Answer, output.result.Answer[i].RRset) :
                  SignedByLeaf(coveringSigs(input.msg.Answer, output.result.Answer[i].RRset)[j]))
              /\ coveringSigs(input.msg.Answer, output.result.Answer[i].RRset) # <<>>
              => output.result.Answer[i].Status = "Insecure"
        /\ (/\ output.result.Answer # <<>>
            /\ \A i \in DOMAIN input.msg.Answer :
                  IsSig(input.msg.Answer[i]) => SignedByLeaf(input.msg.Answer[i]))
           => output.result.Status = "Insecure"

-----------------------------------------------------------------------------
(* C2 *)

\* The RRsets of a section: (name, class, type) of its records other than
\* RRSIGs.
RRsetsOf(rrs) ==
    {RRsetKey(rrs[i].name, rrs[i].class, rrs[i].type) :
        i \in {j \in DOMAIN rrs : rrs[j].type # "RRSIG"}}

\* C2: the roll-up status is decided by the per-set statuses of the Answer
\* section alone: Secure iff all are Secure, Bogus if one is Bogus,
\* Insecure if one is Insecure and none Bogus, Indeterminate otherwise;
\* exactly one of the four cases applies.
C2_RollupFromAnswer ==
    op = "validate" =>
        LET S == Statuses(output.result.Answer)
            status == output.result.Status
            allSecure == S \subseteq {"Secure"}
            anyBogus == "Bogus" \in S
            insecure == "Insecure" \in S /\ "Bogus" \notin S
            otherwise == ~allSecure /\ ~anyBogus /\ ~insecure
        IN  /\ {output.result.Answer[i].RRset : i \in DOMAIN output.result.Answer}
                 = RRsetsOf(input.msg.Answer)
            /\ status = "Secure" <=> allSecure
            /\ anyBogus => status = "Bogus"
            /\ insecure => status = "Insecure"
            /\ otherwise => status = "Indeterminate"
            /\ Cardinality({c \in {<<1, allSecure>>, <<2, anyBogus>>, <<3, insecure>>,
                                   <<4, otherwise>>} : c[2]}) = 1

\* A Secure roll-up over a non-empty Answer although an RRset of the
\* Authority section is Bogus.
C2_Witness ==
    /\ op = "validate"
    /\ output.result.Status = "Secure"
    /\ output.result.Answer # <<>>
    /\ "Bogus" \in Statuses(output.result.Authoritative)

-----------------------------------------------------------------------------
(* C7 *)

\* The RRSIGs of a section that cover an RRset: same name, class and
\* covered type.
Covers(rrs, k) ==
    {i \in DOMAIN rrs :
        /\ rrs[i].type = "RRSIG" /\ rrs[i].name = k.Name
        /\ rrs[i].class = k.Class /\ rrs[i].covered = k.Type}

RECURSIVE LookupsOf(_)
LookupsOf(perSet) ==
    IF perSet = <<>> THEN <<>>
    ELSE Head(perSet).Audit.lookups \o LookupsOf(Tail(perSet))

-----------------------------------------------------------------------------
(* C8 *)

\* Whether an RRSIG verifies with the key map the validator held.
VerifiesWith(sig, dnskeyMap) ==
    /\ InWindow(sig)
    /\ sig.tag \in DOMAIN dnskeyMap
    /\ Verify(sig, dnskeyMap[sig.tag])

-----------------------------------------------------------------------------
(* C9 *)

-----------------------------------------------------------------------------
(* C10 *)

\* The KSKs of an RRset, and whether parseKSKsFromAnswer must fail on it.
KSKsIn(rrSet) ==
    {rrSet[i] : i \in {j \in DOMAIN rrSet :
                          rrSet[j].type = "DNSKEY" /\ rrSet[j].flags = keySigningKeyFlag}}

MustFail(rrSet) ==
    \/ \E i \in DOMAIN rrSet : rrSet[i].type # "DNSKEY"
    \/ \E i \in DOMAIN rrSet :
          rrSet[i].type = "DNSKEY"
          /\ rrSet[i].flags \notin {keySigningKeyFlag, zoneSigningKeyFlag}
    \/ KSKsIn(rrSet) = {}

\* C10: the map returned holds exactly the keys with flags 257, each under
\* its key tag, and no key with flags 256; an error and no map when a
\* record has another flag value, is not a DNSKEY, or no key has flags 257.
C10_ExactlyTheKSKs ==
    op = "parseKSKs" =>
        IF MustFail(input) THEN output.ksks = Nil /\ output.err # ""
        ELSE /\ output.err = "" /\ output.ksks # Nil
             /\ MapValues(output.ksks[1]) = KSKsIn(input)
             /\ \A t \in DOMAIN output.ksks[1] : KeyTag(output.ksks[1][t]) = t

\* The last key with flags 257 and key tag t in the RRset.
LastKSK(rrSet, t) ==
    LET at == {i \in DOMAIN rrSet :
                  rrSet[i].flags = keySigningKeyFlag /\ KeyTag(rrSet[i]) = t}
    IN  rrSet[CHOOSE i \in at : \A j \in at : j <= i]

\* What parseKSKsFromAnswer returns: the key tags of the map are those of
\* the keys with flags 257, each mapped to the last such key of the RRset,
\* so that of two KSKs with one key tag only the later is kept.
C10_LastKSKPerTag ==
    op = "parseKSKs" =>
        IF MustFail(input) THEN output.ksks = Nil /\ output.err # ""
        ELSE /\ output.err = "" /\ output.ksks # Nil
             /\ DOMAIN output.ksks[1] = {KeyTag(k) : k \in KSKsIn(input)}
             /\ \A t \in DOMAIN output.ksks[1] : output.ksks[1][t] = LastKSK(input, t)

\* Two keys with flags 257 share a key tag and the map holds one of them.
TagCollision ==
    /\ op = "parseKSKs"
    /\ output.err = ""
    /\ \E k1, k2 \in KSKsIn(input) : k1 # k2 /\ KeyTag(k1) = KeyTag(k2)
    /\ Cardinality(DOMAIN output.ksks[1]) = 1

-----------------------------------------------------------------------------
(* The DMARC lookup module and its tests (src/unnamed/part_000)            *)

\* A TXT string is a sequence of lexical pieces: single characters, the
\* version token in two spellings, and "text" for any other run of text.
Blank == {" ", "\t"}

\* The position of the first piece at or after i that is no space or tab.
RECURSIVE skipBlanks(_, _)
skipBlanks(txt, i) ==
    IF i <= Len(txt) /\ txt[i] \in Blank THEN skipBlanks(txt, i + 1) ELSE i

\* Whether piece i of the string is c.
pieceIs(txt, i, c) == i <= Len(txt) /\ txt[i] = c

\* The DMARC prefix expression matched against a TXT string:
\* ^[vV][ \t]*=[ \t]*DMARC1[ \t]*;
afterVersion(txt, i) == pieceIs(txt, skipBlanks(txt, i), ";")

afterEquals(txt, i) ==
    pieceIs(txt, skipBlanks(txt, i), "DMARC1") /\ afterVersion(txt, skipBlanks(txt, i) + 1)

\* The expression without the anchor at the start of the string.
dmarcMatchUnanchored(txt) ==
    /\ (pieceIs(txt, skipBlanks(txt, 1), "v") \/ pieceIs(txt, skipBlanks(txt, 1), "V"))
    /\ pieceIs(txt, skipBlanks(txt, skipBlanks(txt, 1) + 1), "=")
    /\ afterEquals(txt, skipBlanks(txt, skipBlanks(txt, 1) + 1) + 1)

dmarcMatch(txt) ==
    /\ (pieceIs(txt, 1, "v") \/ pieceIs(txt, 1, "V"))
    /\ pieceIs(txt, skipBlanks(txt, 2), "=")
    /\ afterEquals(txt, skipBlanks(txt, 2) + 1)

\* The first answer the expression matches, if any.
RECURSIVE FindTxtRecord(_, _)
FindTxtRecord(answers, i) ==
    IF i > Len(answers) THEN Nil
    ELSE IF dmarcMatch(answers[i]) THEN Some(answers[i])
    ELSE FindTxtRecord(answers, i + 1)

\* DmarcLookupModule.Lookup, given the status and answers of the TXT
\* lookup.
DmarcLookup(status, answers) ==
    IF status # "NOERROR" THEN [status |-> status, Dmarc |-> <<>>]
    ELSE IF FindTxtRecord(answers, 1) = Nil THEN [status |-> "NO_RECORD", Dmarc |-> <<>>]
    ELSE [status |-> "NOERROR", Dmarc |-> FindTxtRecord(answers, 1)[1]]

\* The tests of the module: the answers of the mock and what is asserted.
SomeTXT == <<"text">>
DmarcTest(txt, status, dmarc) ==
    [answers |-> <<SomeTXT, txt>>, status |-> status, Dmarc |-> dmarc]

DmarcTests ==
    LET Valid1 == <<"v", "=", "DMARC1", ";", " ", "text">>
        Valid2 == <<"V", "=", "DMARC1", ";", " ", "text">>
        Valid3 == <<"v", "\t", "\t", "\t", "=", "\t", "\t", " ", " ", "DMARC1", "\t", "\t",
                    ";", " ", "text">>
        NotValid1 == <<"\t", "\t", " ", " ", " ", "v", " ", " ", " ", "=", "DMARC1", ";",
                       " ", "text">>
        NotValid2 == <<"v", "=", "DMARc1", ";", " ", "text">>
        NotValid3 == <<"v", "=", "DMARc1", ".", " ", "text">>
    IN  {DmarcTest(Valid1, "NOERROR", Valid1), DmarcTest(Valid2, "NOERROR", Valid2),
         DmarcTest(Valid3, "NOERROR", Valid3), DmarcTest(NotValid1, "NO_RECORD", <<>>),
         DmarcTest(NotValid2, "NO_RECORD", <<>>), DmarcTest(NotValid3, "NO_RECORD", <<>>)}

\* TXT strings the lookup is applied to beyond those of the tests.
Pieces == {"v", "V", " ", "\t", "=", "DMARC1", "DMARc1", ";", "."}
TxtStrings == SeqsUpTo(Pieces, MaxTxt)

InitDmarc ==
    /\ world = <<>>
    /\ op = "idle"
    /\ input = <<>>
    /\ output = <<>>

\* A test of the module runs: the mock answers NOERROR with the answers
\* registered for the name.
RunDmarcTest ==
    /\ op = "idle"
    /\ \E t \in DmarcTests :
          /\ op' = "dmarc test"
          /\ input' = t
          /\ output' = DmarcLookup("NOERROR", t.answers)
    /\ UNCHANGED world

\* The lookup is applied to a TXT answer, alone or after another answer;
\* the mock answers NO_ANSWER for a name it has no result for.
LookupDmarc ==
    /\ op = "idle"
    /\ \E txt \in TxtStrings, before \in {<<>>, <<SomeTXT>>},
          status \in {"NOERROR", "NO_ANSWER"} :
          /\ status = "NO_ANSWER" => (txt = <<>> /\ before = <<>>)
          /\ op' = "dmarc"
          /\ input' = [status |-> status,
                       answers |-> IF status = "NOERROR" THEN before \o <<txt>> ELSE <<>>]
          /\ output' = DmarcLookup(status, input'.answers)
    /\ UNCHANGED world

NextDmarc == RunDmarcTest \/ LookupDmarc

SpecDmarc == InitDmarc /\ [][NextDmarc]_vars

\* A TXT string of the DMARC form: 'v' or 'V' first, '=', the token
\* DMARC1 and ';', with nothing but spaces and tabs between them.
HasDmarcForm(txt) ==
    \E i, j, k \in DOMAIN txt :
        /\ 1 < i /\ i < j /\ j < k
        /\ txt[1] \in {"v", "V"} /\ txt[i] = "=" /\ txt[j] = "DMARC1" /\ txt[k] = ";"
        /\ \A n \in (2..(k - 1)) \ {i, j} : txt[n] \in {" ", "\t"}

\* C16: the lookup returns NOERROR and the TXT string, unchanged, of the
\* first answer of the DMARC form, whatever answers without that form come
\* before it, and NO_RECORD with an empty string when no answer has the
\* form; the assertions of the module's tests hold.
C16_DmarcForm ==
    /\ op = "dmarc test" =>
          (output.status = input.status /\ output.Dmarc = input.Dmarc)
    /\ (op \in {"dmarc", "dmarc test"} /\ (op = "dmarc" => input.status = "NOERROR")) =>
          LET formed == {i \in DOMAIN input.answers : HasDmarcForm(input.answers[i])}
          IN  IF formed = {} THEN output.status = "NO_RECORD" /\ output.Dmarc = <<>>
              ELSE /\ output.status = "NOERROR"
                   /\ output.Dmarc =
                        input.answers[CHOOSE i \in formed : \A j \in formed : i <= j]

\* An answer with tabs and spaces around '=' and the token is returned as
\* it is although an answer without the form comes first.
C16_Witness ==
    /\ op = "dmarc"
    /\ Len(input.answers) = 2
    /\ ~HasDmarcForm(input.answers[1])
    /\ \E i \in DOMAIN input.answers[2] : input.answers[2][i] = "\t"
    /\ output.status = "NOERROR"
    /\ output.Dmarc = input.answers[2]

-----------------------------------------------------------------------------
(* The chain of DNSKEY and DS lookups, call by call                        *)

\* The calls of getDNSKEYs that have not returned, outermost first: for
\* each its signer domain, where it stands (at its DNSKEY lookup, at the
\* root anchors, at its DS lookup, waiting for the keys of the signer of
\* RRSIG i over the DS RRset, or matching its KSKs with the DS records),
\* and beside them what the call that returned last returned.
Call(zone, at, i) == [zone |-> zone, at |-> at, i |-> i]

Top == output.pending[Len(output.pending)]

Asked(q) == Append(output.trace, [Name |-> q.Name, Type |-> q.Type])

\* The innermost call returns; the validation is over when it was the
\* outermost, too.
ReturnsWith(result, trace) ==
    /\ output' = [pending |-> SubSeq(output.pending, 1, Len(output.pending) - 1),
                  returned |-> result, trace |-> trace]
    /\ op' = IF result = "panic" THEN "chain: panic"
             ELSE IF Len(output.pending) = 1 THEN "chain: done"
             ELSE "chain"

MovesTo(at, i, trace) ==
    /\ output' = [output EXCEPT !.pending[Len(output.pending)] = Call(Top.zone, at, i),
                                !.trace = trace]
    /\ op' = "chain"

\* The RRSIGs over the DS RRset in the answer to the DS question of zone.
DSSigs(zone) ==
    LET split == splitRRsetsAndSigs(world[dsQuestion(zone)].answers)
        key == RRsetKey(zone, ClassINET, "DS")
    IN  IF key \in DOMAIN split.typeToRRSets /\ key \in DOMAIN split.typeToRRSigs
        THEN split.typeToRRSigs[key] ELSE <<>>

signerKeys(zone) == separateKeys(world[dnskeyQuestion(zone)].answers, 1, EmptyMap, EmptyMap)

\* The DNS of the chain: that of the validator, and DS RRsets whose RRSIG
\* names the zone itself or a zone below it.
ChainWorlds ==
    {World(k, d, t) :
        k \in LeafDNSKEYResponses,
        d \in LeafDSResponses \cup {Response("NOERROR", FALSE, dsAnswerSignedBy(Leaf, Leaf))},
        t \in TLDResponses \cup
              {[dnskey |-> Response("NOERROR", FALSE, honestKeys(TLD, TRUE)),
                ds |-> Response("NOERROR", FALSE, dsAnswerSignedBy(TLD, Leaf))]}}

InitChain ==
    /\ world \in ChainWorlds
    /\ op = "idle"
    /\ input = <<>>
    /\ output = <<>>

\* validateRRSIG meets an RRSIG over an RRset that is no DNSKEY RRset and
\* calls getDNSKEYs for its signer.
StartChain ==
    /\ op = "idle"
    /\ \E signer \in Zones :
          /\ input' = [signer |-> signer]
          /\ output' = [pending |-> <<Call(signer, "DNSKEY", 0)>>, returned |-> "",
                        trace |-> <<>>]
    /\ op' = "chain"
    /\ UNCHANGED world

\* getDNSKEYs: the DNSKEY lookup, whose answer is validated with the KSKs
\* it holds and causes no further lookup, and the separation of the keys.
AskDNSKEY ==
    /\ (op = "chain" /\ output.pending # <<>>) /\ Top.at = "DNSKEY"
    /\ LET q == dnskeyQuestion(Top.zone)
           res == lookup(q, InitSt, 1, FALSE)
       IN  IF lookupRejected(res) \/ DOMAIN signerKeys(Top.zone).ksks = {}
              \/ DOMAIN signerKeys(Top.zone).zsks = {}
           THEN ReturnsWith("failed", Asked(q))
           ELSE MovesTo(IF Top.zone = rootZone THEN "anchors" ELSE "DS", 0, Asked(q))
    /\ UNCHANGED <<world, input>>

\* validateDSRecords for the root: the trust anchors, no lookup.
UseRootAnchors ==
    /\ (op = "chain" /\ output.pending # <<>>) /\ Top.at = "anchors"
    /\ LET d == retainKSKs(makeDNSSECValidator(Message(<<>>, <<>>, <<>>)),
                           signerKeys(Top.zone).ksks, RootAnchors, InitSt)
       IN  ReturnsWith(IF d.st.panicked THEN "panic" ELSE IF d.err # "" THEN "failed"
                       ELSE "ok", output.trace)
    /\ UNCHANGED <<world, input>>

\* validateDSRecords for any other zone: the DS lookup; an answer from
\* the cache is taken as it is, any other is validated, which calls
\* getDNSKEYs for the signer of the first RRSIG over the DS RRset.
AskDS ==
    /\ (op = "chain" /\ output.pending # <<>>) /\ Top.at = "DS"
    /\ LET q == dsQuestion(Top.zone)
           res == world[q]
       IN  IF res.status # "NOERROR" THEN ReturnsWith("failed", Asked(q))
           ELSE IF res.cached THEN MovesTo("match", 0, Asked(q))
           ELSE IF DSSigs(Top.zone) = <<>> THEN ReturnsWith("failed", Asked(q))
           ELSE /\ Len(output.pending) < MaxPending
                /\ output' = [pending |->
                                  SubSeq(output.pending, 1, Len(output.pending) - 1)
                                  \o <<Call(Top.zone, "signer", 1),
                                       Call(DSSigs(Top.zone)[1].signer, "DNSKEY", 0)>>,
                              returned |-> "", trace |-> Asked(q)]
                /\ op' = "chain"
    /\ UNCHANGED <<world, input>>

\* getDNSKEYs for the signer of RRSIG i has returned: on an error the DS
\* RRset is Bogus and the DS lookup fails; otherwise the next RRSIG's
\* signer is asked for, and after the last the RRSIGs are verified with
\* the ZSKs fetched last.
AfterSignerKeys ==
    /\ (op = "chain" /\ output.pending # <<>>) /\ Top.at = "signer" /\ output.returned # ""
    /\ LET sigs == DSSigs(Top.zone)
           zsks == signerKeys(sigs[Len(sigs)].signer).zsks
       IN  IF output.returned # "ok" THEN ReturnsWith("failed", output.trace)
           ELSE IF Top.i < Len(sigs) THEN
               /\ Len(output.pending) < MaxPending
               /\ output' = [pending |->
                                 SubSeq(output.pending, 1, Len(output.pending) - 1)
                                 \o <<Call(Top.zone, "signer", Top.i + 1),
                                      Call(sigs[Top.i + 1].signer, "DNSKEY", 0)>>,
                             returned |-> "", trace |-> output.trace]
               /\ op' = "chain"
           ELSE IF verifyLoop(sigs, 1, zsks, "", <<>>).sigUsed = Nil THEN
               ReturnsWith("failed", output.trace)
           ELSE MovesTo("match", 0, output.trace)
    /\ UNCHANGED <<world, input>>

\* validateDSRecords with the authentic DS records at hand.
MatchDS ==
    /\ (op = "chain" /\ output.pending # <<>>) /\ Top.at = "match"
    /\ LET d == retainKSKs(makeDNSSECValidator(Message(<<>>, <<>>, <<>>)),
                           signerKeys(Top.zone).ksks,
                           collectDS(world[dsQuestion(Top.zone)].answers, 1, EmptyMap),
                           InitSt)
       IN  ReturnsWith(IF d.st.panicked THEN "panic" ELSE IF d.err # "" THEN "failed"
                       ELSE "ok", output.trace)
    /\ UNCHANGED <<world, input>>

NextChain ==
    \/ StartChain \/ AskDNSKEY \/ UseRootAnchors \/ AskDS \/ AfterSignerKeys \/ MatchDS

SpecChain == InitChain /\ [][NextChain]_vars

-----------------------------------------------------------------------------
(* The command line (src/src/cli/cli.go)                                   *)

zdnsCLIVersion == "1.1.0"

\* strings.ToUpper on the words of the model.
StrToUpper(w) ==
    CASE w = "mx" -> "MX"
      [] w = "a" -> "A"
      [] w = "zdns" -> "ZDNS"
      [] w = "--version" -> "--VERSION"
      [] w = "--iterative" -> "--ITERATIVE"
      [] w = "--bogus" -> "--BOGUS"
      [] w = "example.com" -> "EXAMPLE.COM"
      [] OTHER -> w

\* GetValidLookups(): the module names, in upper case; the parser knows
\* the modules as its commands under these names.
ValidLookups == {"A", "MX"}

\* The loop without its break: every module name is upper-cased.
RECURSIVE capitalizeEvery(_, _)
capitalizeEvery(osArgs, i) ==
    IF i > Len(osArgs) THEN osArgs
    ELSE IF StrToUpper(osArgs[i]) \in ValidLookups THEN
        capitalizeEvery([osArgs EXCEPT ![i] = StrToUpper(osArgs[i])], i + 1)
    ELSE capitalizeEvery(osArgs, i + 1)

\* The loop over os.Args: the first element that is a module name in any
\* case is upper-cased, and the loop ends there.
RECURSIVE capitalizeModule(_, _)
capitalizeModule(osArgs, i) ==
    IF i > Len(osArgs) THEN osArgs
    ELSE IF StrToUpper(osArgs[i]) \in ValidLookups THEN
        [osArgs EXCEPT ![i] = StrToUpper(osArgs[i])]
    ELSE capitalizeModule(osArgs, i + 1)

\* parser.ParseCommandLine: the arguments are taken from left to right,
\* an option sets its field, the first word that is no option must be a
\* command unless commands are optional, later words are left over; the
\* first error ends the parse.
IsOption(w) == w \in {"--version", "--iterative", "--bogus", "--VERSION"}

RECURSIVE parseLoop(_, _, _, _)
parseLoop(words, i, subcommandsOptional, ps) ==
    IF i > Len(words) THEN
        IF ps.command = "" /\ ~subcommandsOptional THEN [ps EXCEPT !.err = "flags.Error"]
        ELSE ps
    ELSE IF words[i] = "--version" THEN
        parseLoop(words, i + 1, subcommandsOptional, [ps EXCEPT !.Version = TRUE])
    ELSE IF words[i] = "--iterative" THEN
        parseLoop(words, i + 1, subcommandsOptional, [ps EXCEPT !.Iterative = TRUE])
    ELSE IF IsOption(words[i]) THEN [ps EXCEPT !.err = "flags.Error"]
    ELSE IF ps.command = "" /\ ps.args = <<>> /\ words[i] \in ValidLookups THEN
        parseLoop(words, i + 1, subcommandsOptional, [ps EXCEPT !.command = words[i]])
    ELSE IF ps.command = "" /\ ps.args = <<>> /\ ~subcommandsOptional THEN
        [ps EXCEPT !.err = "flags.Error", !.args = Append(@, words[i])]
    ELSE
        parseLoop(words, i + 1, subcommandsOptional, [ps EXCEPT !.args = Append(@, words[i])])

\* commandFails: the command's own code returns an error that is no
\* flags.Error once the arguments are parsed.
ParseCommandLine(words, subcommandsOptional, commandFails) ==
    LET ps == parseLoop(words, 1, subcommandsOptional,
                        [Version |-> FALSE, Iterative |-> FALSE, command |-> "",
                         args |-> <<>>, err |-> ""])
    IN  IF ps.err = "" /\ ps.command # "" /\ commandFails THEN [ps EXCEPT !.err = "error"]
        ELSE ps

\* The process after parseArgs: exit is the exit code if the process has
\* exited, GC what the configuration holds otherwise.
Exited(osArgs, code, stdout) ==
    [osArgs |-> osArgs, exit |-> Some(code), stdout |-> stdout, Module |-> "",
     Domains |-> <<>>, ran |-> FALSE]

\* parseArgs requiring a module before it looks at the version flag.
parseArgsVersionFails(osArgs, commandFails) ==
    LET args == capitalizeModule(osArgs, 1)
        strict == ParseCommandLine(Tail(args), FALSE, commandFails)
    IN  IF strict.err # "" THEN Exited(args, 1, <<>>)
        ELSE IF strict.Version THEN Exited(args, 0, <<"zdns version " \o zdnsCLIVersion>>)
        ELSE [osArgs |-> args, exit |-> Nil, stdout |-> <<>>,
              Module |-> StrToUpper(strict.command), Domains |-> strict.args,
              ran |-> FALSE]

parseArgs(osArgs, commandFails) ==
    LET args == capitalizeModule(osArgs, 1)
        lenient == ParseCommandLine(Tail(args), TRUE, commandFails)
        strict == ParseCommandLine(Tail(args), FALSE, commandFails)
    IN  IF lenient.Version THEN Exited(args, 0, <<"zdns version " \o zdnsCLIVersion>>)
        ELSE IF strict.err # "" THEN Exited(args, 1, <<>>)
        ELSE [osArgs |-> args, exit |-> Nil, stdout |-> <<>>,
              Module |-> StrToUpper(strict.command), Domains |-> strict.args,
              ran |-> FALSE]

\* Execute: Run is reached when parseArgs returns.
ExecuteCLI(osArgs, commandFails) ==
    LET r == parseArgs(osArgs, commandFails)
    IN  IF r.exit # Nil THEN r ELSE [r EXCEPT !.ran = TRUE]

\* Command lines: the program name and up to MaxArgs words.
Words == {"A", "mx", "--version", "--bogus", "--iterative", "example.com", "AAAB"}

InitCLI ==
    /\ world = <<>>
    /\ op = "idle"
    /\ input = <<>>
    /\ output = <<>>

Execute ==
    /\ op = "idle"
    /\ \E prog \in {"zdns", "mx"}, words \in SeqsUpTo(Words, MaxArgs), commandFails \in BOOLEAN :
          /\ op' = "Execute"
          /\ input' = [osArgs |-> <<prog>> \o words, commandFails |-> commandFails]
          /\ output' = ExecuteCLI(input'.osArgs, commandFails)
    /\ UNCHANGED world

SpecCLI == InitCLI /\ [][Execute]_vars

-----------------------------------------------------------------------------
(* The external resolver's sockets (src/unnamed/part_001)                  *)

\* A process is its table of open sockets; a socket has its descriptor,
\* its local address and the remote address it is connected to, if any.
GooglePublicDNS == "8.8.8.8:53"

\* The lowest descriptor that is not open.
FreeFd(fds) == CHOOSE n \in 3..(3 + Cardinality(fds)) :
                   /\ \A sk \in fds : sk.fd # n
                   /\ \A m \in 3..(n - 1) : \E sk \in fds : sk.fd = m

\* net.Dial("udp", addr): a connected socket on success.
Dial(fds, addr, localIP) ==
    LET conn == [fd |-> FreeFd(fds), net |-> "udp", local |-> localIP, remote |-> addr]
    IN  [conn |-> conn, fds |-> fds \cup {conn}]

\* net.ListenUDP("udp", laddr): an unconnected socket bound to laddr.
ListenUDP(fds, laddr) ==
    LET conn == [fd |-> FreeFd(fds), net |-> "udp", local |-> laddr, remote |-> ""]
    IN  [conn |-> conn, fds |-> fds \cup {conn}]

\* conn.Close(): the descriptor is released whether or not an error is
\* reported.
Close(fds, conn) == fds \ {conn}

\* What the system answers during one construction.
Environments ==
    [dialOk : BOOLEAN, localIP : {"10.0.0.1", "10.0.0.2"}, closeErr : BOOLEAN,
     listenOk : BOOLEAN, resolversFile : BOOLEAN]

NewResolver(cache) ==
    [cache |-> IF cache # Nil THEN "caller's" ELSE "own", localAddr |-> "",
     conn |-> Nil, udpClient |-> Nil, tcpClient |-> Nil, nameServers |-> ""]

setupConnectionsAndSockets(r, fds, localAddr, env) ==
    LET r1 == [r EXCEPT !.udpClient = Some([Net |-> "udp", LocalAddr |-> localAddr])]
        l == ListenUDP(fds, localAddr)
    IN  IF ~env.listenOk THEN [r |-> r1, fds |-> fds, err |-> "unable to create socket"]
        ELSE [r |-> [r1 EXCEPT !.conn = Some(l.conn),
                               !.tcpClient = Some([Net |-> "tcp", LocalAddr |-> localAddr])],
              fds |-> l.fds, err |-> ""]

\* NewExternalResolver without the Close of the test connection.
NewExternalResolverKeepsProbe(cache, fds, env) ==
    LET d == Dial(fds, GooglePublicDNS, env.localIP)
        r1 == [NewResolver(cache) EXCEPT !.localAddr = d.conn.local]
        s == setupConnectionsAndSockets(r1, d.fds, r1.localAddr, env)
    IN  IF ~env.dialOk THEN
            [r |-> Nil, fds |-> fds,
             err |-> "unable to find default IP address to open socket: "]
        ELSE IF s.err # "" THEN
            [r |-> Nil, fds |-> s.fds,
             err |-> "unable to setup persistent sockets/connections: "]
        ELSE
            [r |-> Some([s.r EXCEPT !.nameServers =
                             IF env.resolversFile THEN "resolv.conf" ELSE "defaults"]),
             fds |-> s.fds, err |-> ""]

\* An error of Close is logged and nothing else.
NewExternalResolver(cache, fds, env) ==
    LET d == Dial(fds, GooglePublicDNS, env.localIP)
        r1 == [NewResolver(cache) EXCEPT !.localAddr = d.conn.local]
        closed == Close(d.fds, d.conn)
        s == setupConnectionsAndSockets(r1, closed, r1.localAddr, env)
    IN  IF ~env.dialOk THEN
            [r |-> Nil, fds |-> fds,
             err |-> "unable to find default IP address to open socket: "]
        ELSE IF s.err # "" THEN
            [r |-> Nil, fds |-> s.fds,
             err |-> "unable to setup persistent sockets/connections: "]
        ELSE
            [r |-> Some([s.r EXCEPT !.nameServers =
                             IF env.resolversFile THEN "resolv.conf" ELSE "defaults"]),
             fds |-> s.fds, err |-> ""]

\* The process: its open sockets and the resolvers it holds; input keeps
\* the sockets open before the last construction.
InitResolver ==
    /\ world = <<>>
    /\ op = "idle"
    /\ input = <<>>
    /\ output = [fds |-> {}, resolvers |-> <<>>, calls |-> 0, last |-> Nil]

Construct ==
    /\ output.calls < MaxResolvers
    /\ \E cache \in {Nil, Some("cache")}, env \in Environments :
          LET ret == NewExternalResolver(cache, output.fds, env)
          IN  /\ op' = "NewExternalResolver"
              /\ input' = [cache |-> cache, env |-> env, fds |-> output.fds]
              /\ output' = [fds |-> ret.fds,
                            resolvers |-> IF ret.r # Nil THEN Append(output.resolvers, ret.r[1])
                                          ELSE output.resolvers,
                            calls |-> output.calls + 1,
                            last |-> Some([r |-> ret.r, err |-> ret.err])]
    /\ UNCHANGED world

SpecResolver == InitResolver /\ [][Construct]_vars

-----------------------------------------------------------------------------
(* C18 *)

\* The sockets the last construction opened and left open.
LeftOpen == output.fds \ input.fds

\* C18: after NewExternalResolver no socket connected to the probe
\* address is open; when it returns an error it leaves no socket open
\* that it opened; when it succeeds it leaves exactly one, an unconnected
\* UDP socket bound to the local address the probe learned, held by the
\* returned Resolver; no socket open before is touched.
C18_SocketsReleasedOrOwned ==
    op = "NewExternalResolver" =>
        LET ret == output.last[1]
        IN  /\ input.fds \subseteq output.fds
            /\ \A sk \in output.fds : sk.remote # "8.8.8.8:53"
            /\ (ret.err # "") = (ret.r = Nil)
            /\ ret.err # "" => LeftOpen = {}
            /\ ret.err = "" =>
                   /\ Cardinality(LeftOpen) = 1
                   /\ \A sk \in LeftOpen :
                          /\ sk.net = "udp"
                          /\ sk.local = input.env.localIP
                          /\ ret.r[1].conn = <<sk>>
                          /\ ret.r[1].localAddr = input.env.localIP
            /\ \A i, j \in DOMAIN output.resolvers :
                   i # j => output.resolvers[i].conn # output.resolvers[j].conn

\* A construction whose probe succeeded and whose listening socket could
\* not be created returns an error with nothing left open, after an
\* earlier construction that succeeded and still holds its socket.
C18_Witness ==
    /\ op = "NewExternalResolver"
    /\ input.env.dialOk /\ ~input.env.listenOk
    /\ output.last[1].err # ""
    /\ Len(output.resolvers) = 1
    /\ output.fds = input.fds
    /\ Cardinality(output.fds) = 1

-----------------------------------------------------------------------------
(* C17 *)

\* The words after the program name, as the parser receives them.
Given == Tail(output.osArgs)

UnknownFlagAt(i) == Given[i] = "--bogus"

\* The first word that is no option, if any, is not a module.
UnknownCommand ==
    \E i \in DOMAIN Given :
        /\ Given[i] \notin {"--version", "--iterative", "--bogus"}
        /\ \A j \in 1..(i - 1) : Given[j] \in {"--version", "--iterative", "--bogus"}
        /\ Given[i] \notin {"A", "MX"}

NoCommand == \A i \in DOMAIN Given : Given[i] \in {"--version", "--iterative", "--bogus"}

\* The command line fails to parse: an unknown flag, an unknown command,
\* no command, or an error of the command's own.
FailsToParse ==
    \/ \E i \in DOMAIN Given : UnknownFlagAt(i)
    \/ UnknownCommand
    \/ NoCommand
    \/ input.commandFails

VersionGiven == \E i \in DOMAIN Given : Given[i] = "--version"

ExitedWith(code) == output.exit = Some(code) /\ ~output.ran

VersionPrinted == output.stdout = <<"zdns version 1.1.0">>

\* C17: the exit code is 0, with the version printed, when the version
\* flag is given, and 1 whenever the command line fails to parse
\* otherwise; no parse failure reaches Run.
C17_ExitCodes ==
    op = "Execute" =>
        IF VersionGiven THEN ExitedWith(0) /\ VersionPrinted
        ELSE IF FailsToParse THEN ExitedWith(1)
        ELSE output.ran

\* The version flag stands before every unknown flag.
VersionReached ==
    \E i \in DOMAIN Given :
        Given[i] = "--version" /\ \A j \in 1..(i - 1) : ~UnknownFlagAt(j)

\* C17 as the code has it: the exit code is 0, with the version printed,
\* exactly when the version flag stands before every unknown flag,
\* whatever else is wrong with the command line; otherwise it is 1
\* whenever the command line fails to parse, a version flag after an
\* unknown flag included; Run is reached only when neither is the case.
C17_VersionBeforeFailure ==
    op = "Execute" =>
        IF VersionReached THEN ExitedWith(0) /\ VersionPrinted
        ELSE IF FailsToParse THEN ExitedWith(1) /\ output.stdout = <<>>
        ELSE output.exit = Nil /\ output.ran

\* The version flag follows an unknown flag and the exit code is 1; in
\* another run it precedes it and the exit code would be 0.
C17_Witness ==
    /\ op = "Execute"
    /\ VersionGiven /\ ~VersionReached
    /\ ExitedWith(1)

-----------------------------------------------------------------------------
(* C19 *)

\* The words that are a module name in some case.
NamesAModule(w) == w \in {"a", "A", "mx", "mX", "Mx", "MX"}

UpperCaseModules == {"A", "MX"}

\* The first element of the command line that names a module, 0 if none.
FirstModuleAt(line) ==
    IF \E i \in DOMAIN line : NamesAModule(line[i])
    THEN CHOOSE i \in DOMAIN line :
             NamesAModule(line[i]) /\ \A j \in 1..(i - 1) : ~NamesAModule(line[j])
    ELSE 0

\* C19: parseArgs upper-cases the first element of the command line that
\* is a module name in any case and leaves every other element as it was,
\* a later domain that equals a module name included; when parseArgs
\* returns, the stored module name is in upper case.
C19_OnlyTheModuleIsUpperCased ==
    op = "Execute" =>
        LET before == input.osArgs
            after == output.osArgs
            k == FirstModuleAt(before)
        IN  /\ Len(after) = Len(before)
            /\ \A i \in DOMAIN before :
                   IF i = k THEN after[i] \in UpperCaseModules /\ NamesAModule(before[i])
                   ELSE after[i] = before[i]
            /\ output.exit = Nil => output.Module \in UpperCaseModules

\* A lower-case module followed by a domain that equals a module name:
\* the module is stored in upper case and the domain keeps its case.
C19_Witness ==
    /\ op = "Execute"
    /\ input.osArgs = <<"zdns", "mx", "mx">>
    /\ output.osArgs = <<"zdns", "MX", "mx">>
    /\ output.exit = Nil
    /\ output.Module = "MX"
    /\ output.Domains = <<"mx">>

-----------------------------------------------------------------------------
(* C11 *)

\* The steps a call added to the trace it received.
Added == SubSeq(output.st.trace, Len(input.st.trace) + 1, Len(output.st.trace))

\* The step of the DS question for a signer zone.
DSStep(z) == [Name |-> IF z = rootZone THEN rootZone
                       ELSE SubSeq(z, 1, Len(z) - 1), Type |-> "DS"]

\* C11: for the root zone validateDSRecords issues no lookup, returns the
\* trace it received, and retains the KSKs the embedded anchors vouch for
\* (here the one root KSK); for any other zone the first step it adds is
\* the DS question for that zone, and that question is asked once.
C11_RootFromAnchors ==
    op = "validateDSRecords" =>
        IF input.signerDomain = rootZone THEN
            /\ output.st.trace = input.st.trace
            /\ LET kept == {k \in MapValues(input.dnskeyMap) : k = RootKSK}
               IN  IF kept = {} THEN output.ksks = Nil /\ output.err # ""
                   ELSE output.err = "" /\ MapValues(output.ksks[1]) = kept
        ELSE
            /\ Added # <<>>
            /\ Added[1] = DSStep(input.signerDomain)
            /\ Cardinality({i \in DOMAIN Added : Added[i] = DSStep(input.signerDomain)}) = 1

\* validateDSRecords kept the root KSK without a step added to a trace
\* that was not empty.
C11_Witness ==
    /\ op = "validateDSRecords"
    /\ input.signerDomain = rootZone
    /\ input.st.trace # <<>>
    /\ output.ksks # Nil
    /\ output.st.trace = input.st.trace

-----------------------------------------------------------------------------
(* C12 *)

\* The DS records validateDSRecords has for a zone: the anchors for the
\* root, otherwise those of the DS answer when the DS lookup is accepted.
DSFor(z, st0) ==
    IF z = rootZone THEN RootAnchors
    ELSE IF lookupRejected(lookup(dsQuestion(z), st0, MaxNest, FALSE)) THEN EmptyMap
    ELSE AuthenticDS(z)

\* A DS vouches for a KSK: same key tag, and its digest is the digest of
\* the key under the DS's digest type, whatever the case of the letters.
Vouches(ds, ksk) ==
    /\ ds.tag = KeyTag(ksk)
    /\ ds.digest.hex = <<ksk.name, ksk.flags, ksk.id, ds.digestType>>

VouchedFor(dnskeyMap, dsRecords) ==
    {k \in MapValues(dnskeyMap) : \E t \in DOMAIN dsRecords : Vouches(dsRecords[t], k)}

\* What validateDSRecords and getDNSKEYs return when they return.
C12_WhenReturned ==
    /\ op = "validateDSRecords" =>
          LET kept == VouchedFor(input.dnskeyMap, DSFor(input.signerDomain, input.st))
          IN  IF kept = {} THEN output.ksks = Nil /\ output.err # ""
              ELSE output.err = "" /\ MapValues(output.ksks[1]) = kept
    /\ op = "getDNSKEYs" =>
          IF output.err = "" THEN
              /\ output.ksks # Nil /\ output.zsks # Nil
              /\ MapValues(output.ksks[1]) # {}
              /\ \A k \in MapValues(output.ksks[1]) :
                    \E t \in DOMAIN DSFor(input.signerDomain, input.st) :
                        Vouches(DSFor(input.signerDomain, input.st)[t], k)
          ELSE output.ksks = Nil /\ output.zsks = Nil

\* C12: validateDSRecords returns exactly the KSKs that a DS with their key
\* tag vouches for, the digest being computed with that DS's digest type
\* and compared case-insensitively; when there is none it returns an error
\* and no keys, and getDNSKEYs fails for the signer.  It returns for every
\* DS answer.
C12_ExactlyTheVouchedKSKs ==
    /\ op \notin {"validateDSRecords: panic", "getDNSKEYs: panic"}
    /\ C12_WhenReturned

-----------------------------------------------------------------------------
(* C13 *)

\* The result validate returns holds one per-set result for each RRset of
\* each section, whatever failed on the way; nothing else tells of a
\* failure than the statuses.
C13_WhenReturned ==
    op = "validate" =>
        /\ \A s \in Sections :
              /\ {s.res[i].RRset : i \in DOMAIN s.res} = RRsetsOf(s.rrs)
              /\ Len(s.res) = Cardinality(RRsetsOf(s.rrs))
              /\ \A i \in DOMAIN s.res :
                    s.res[i].Status \in {"Secure", "Insecure", "Bogus"}
        /\ output.result.Status \in {"Secure", "Insecure", "Bogus", "Indeterminate"}

\* C13: validate returns a DNSSECResult for every response and every
\* failure of a sub-lookup or signature check, with exactly one per-set
\* result for each distinct RRset of the three sections.
C13_AlwaysAResult ==
    /\ op # "validate: panic"
    /\ C13_WhenReturned

-----------------------------------------------------------------------------
(* C14 *)

IsPrefix(a, b) == Len(a) <= Len(b) /\ SubSeq(b, 1, Len(a)) = a

DNSKEYStep(z) == [DSStep(z) EXCEPT !.Type = "DNSKEY"]

\* The steps of the targeted lookups issued, in the order issued.
RECURSIVE AskedSteps(_)
AskedSteps(asked) ==
    IF asked = <<>> THEN <<>>
    ELSE (IF Head(asked).ipv4 THEN <<TargetedStep(Head(asked).name, "A")>> ELSE <<>>)
         \o (IF Head(asked).ipv6 THEN <<TargetedStep(Head(asked).name, "AAAA")>> ELSE <<>>)
         \o AskedSteps(Tail(asked))

\* C14: the trace a function of the validator returns, on success and on
\* error, starts with the trace it received, and the step of a lookup
\* that failed is in it; the trace DoNSLookup returns is the trace of the
\* NS lookup followed by the steps of every targeted lookup it issued,
\* failed or not.
C14_TraceAppendOnly ==
    /\ op \in {"validateDSRecords", "getDNSKEYs", "validateRRSIG", "validateSection",
               "validate below"}
          => IsPrefix(input.st.trace, output.st.trace)
    /\ op = "getDNSKEYs" => (Added # <<>> /\ Added[1] = DNSKEYStep(input.signerDomain))
    /\ op = "validateRRSIG" =>
          (Added # <<>> /\ Added[1] = DNSKEYStep(input.rrsigs[1].signer))
    /\ (op = "validateDSRecords" /\ input.signerDomain # rootZone) =>
          (Added # <<>> /\ Added[1] = DSStep(input.signerDomain))
    /\ op = "DoNSLookup" =>
          /\ IsPrefix(input.ns.trace, output.trace)
          /\ output.trace = input.ns.trace \o AskedSteps(output.asked)

\* validateRRSIG fails on a signer whose DNSKEYs cannot be fetched and the
\* trace it returns holds the trace received and the failed lookup's step.
C14_Witness ==
    /\ op = "validateRRSIG"
    /\ output.err = "failed to retrieve DNSKEYs for signer domain"
    /\ world[dnskeyQuestion(input.rrsigs[1].signer)].status = "SERVFAIL"
    /\ input.st.trace # <<>>
    /\ output.st.trace = input.st.trace \o <<DNSKEYStep(input.rrsigs[1].signer)>>

-----------------------------------------------------------------------------
(* C20 *)

\* C20: when the NS lookup returns a status other than NOERROR or an
\* error, DoNSLookup returns no servers and the status, error and trace of
\* the NS lookup as they are, and issues no address lookup.
C20_FailedNSLookupPropagates ==
    (op = "DoNSLookup" /\ (input.ns.status # "NOERROR" \/ input.ns.err # "")) =>
        /\ output.retv.Servers = <<>>
        /\ output.status = input.ns.status
        /\ output.err = input.ns.err
        /\ output.trace = input.ns.trace
        /\ output.asked = <<>>

\* The NS lookup returned an error with status NOERROR and NS records
\* without glue, for which addresses were wanted.
C20_Witness ==
    /\ op = "DoNSLookup"
    /\ input.ns.status = "NOERROR" /\ input.ns.err # ""
    /\ \E i \in DOMAIN input.ns.res.Answers : input.ns.res.Answers[i].Type = "NS"
    /\ input.ns.res.Additional = <<>>
    /\ input.lookupIpv4
    /\ output.retv.Servers = <<>> /\ output.asked = <<>>

-----------------------------------------------------------------------------
(* C21 *)

\* The NS query succeeded.
NSSucceeded == op = "DoNSLookup" /\ input.ns.status = "NOERROR" /\ input.ns.err = ""

\* The NS answers among a result's answers, in order.
IsNS(a) == a.isAnswer /\ a.Type = "NS"

NSAnswers == SelectSeq(input.ns.res.Answers, IsNS)

\* A server name without its final dot.
Undotted(name) ==
    CASE name = "ns1.ex.com." -> "ns1.ex.com"
      [] name = "ns2.ex.com." -> "ns2.ex.com"
      [] OTHER -> name

\* The verified glue addresses of one family for a server, in the order
\* of the Additional section.
RECURSIVE GlueOf(_, _, _, _)
GlueOf(additional, i, server, family) ==
    IF i > Len(additional) THEN <<>>
    ELSE (IF /\ additional[i].isAnswer
             /\ additional[i].Type = family
             /\ Undotted(additional[i].Name) = server
             /\ additional[i].Answer \in (IF family = "A"
                                          THEN {"192.0.2.1", "192.0.2.2"}
                                          ELSE {"2001:db8::1"})
          THEN <<additional[i].Answer>> ELSE <<>>)
         \o GlueOf(additional, i + 1, server, family)

Glue4(server) == GlueOf(input.ns.res.Additional, 1, server, "A")
Glue6(server) == GlueOf(input.ns.res.Additional, 1, server, "AAAA")

Needs4(server) == input.lookupIpv4 /\ Glue4(server) = <<>>
Needs6(server) == input.lookupIpv6 /\ Glue6(server) = <<>>

\* The address lookups the NS answers from position i on call for.
RECURSIVE LookupsDue(_, _)
LookupsDue(nsAnswers, i) ==
    IF i > Len(nsAnswers) THEN <<>>
    ELSE LET server == Undotted(nsAnswers[i].Answer)
         IN  (IF Needs4(server) \/ Needs6(server)
              THEN <<[name |-> server, ipv4 |-> Needs4(server), ipv6 |-> Needs6(server)]>>
              ELSE <<>>) \o LookupsDue(nsAnswers, i + 1)

\* C21: after a successful NS query the servers are the NS answers, one
\* each and in order, answers of other types left out; an address lookup
\* is issued for exactly the requested families that have no verified
\* glue for the server; a requested family that has glue carries the glue
\* addresses as they are, and a family that was not requested is empty.
C21_ServersGlueAndLookups ==
    NSSucceeded =>
        LET servers == output.retv.Servers
        IN  /\ Len(servers) = Len(NSAnswers)
            /\ \A k \in DOMAIN servers :
                   /\ servers[k].Name = Undotted(NSAnswers[k].Answer)
                   /\ servers[k].Type = "NS"
                   /\ ~input.lookupIpv4 => servers[k].IPv4Addresses = <<>>
                   /\ ~input.lookupIpv6 => servers[k].IPv6Addresses = <<>>
                   /\ (input.lookupIpv4 /\ Glue4(servers[k].Name) # <<>>) =>
                          servers[k].IPv4Addresses = Glue4(servers[k].Name)
                   /\ (input.lookupIpv6 /\ Glue6(servers[k].Name) # <<>>) =>
                          servers[k].IPv6Addresses = Glue6(servers[k].Name)
            /\ output.asked = LookupsDue(NSAnswers, 1)

\* Two servers among answers of other types, both families requested: the
\* first has IPv6 glue and an unverified IPv4 glue record, so only its
\* IPv4 addresses are looked up; the second has IPv4 glue only.
C21_Witness ==
    /\ NSSucceeded
    /\ input.lookupIpv4 /\ input.lookupIpv6
    /\ Len(input.ns.res.Answers) = 4
    /\ Len(output.retv.Servers) = 2
    /\ output.asked = <<[name |-> "ns1.ex.com", ipv4 |-> TRUE, ipv6 |-> FALSE],
                        [name |-> "ns2.ex.com", ipv4 |-> FALSE, ipv6 |-> TRUE]>>
    /\ output.retv.Servers[1].IPv6Addresses = <<"2001:db8::1">>
    /\ output.retv.Servers[2].IPv4Addresses = <<"192.0.2.2">>

-----------------------------------------------------------------------------
(* C22 *)

\* The lookup asked for a server found no address.
Failed(ask) ==
    \/ input.targeted[ask.name] = "fail"
    \/ input.targeted[ask.name] = "ipv4 only" /\ ~ask.ipv4

\* The trace steps of the address lookups asked, failed or not.
RECURSIVE StepsOf(_, _)
StepsOf(asked, i) ==
    IF i > Len(asked) THEN <<>>
    ELSE (IF asked[i].ipv4 THEN <<[Name |-> asked[i].name, Type |-> "A"]>> ELSE <<>>)
         \o (IF asked[i].ipv6 THEN <<[Name |-> asked[i].name, Type |-> "AAAA"]>> ELSE <<>>)
         \o StepsOf(asked, i + 1)

\* C22: after a successful NS query the status is NOERROR and the error
\* nil whatever the address lookups returned; every NS answer has its
\* server listed, a server whose address lookup failed with the asked
\* families empty; the trace is the NS query's followed by the steps of
\* every address lookup, the failed ones included.
C22_FailedAddressLookupIsNotFatal ==
    NSSucceeded =>
        /\ output.status = "NOERROR" /\ output.err = ""
        /\ Len(output.retv.Servers) = Len(NSAnswers)
        /\ output.trace = input.ns.trace \o StepsOf(output.asked, 1)
        /\ \A ask \in Range(output.asked) :
               Failed(ask) =>
                   \A k \in DOMAIN output.retv.Servers :
                       output.retv.Servers[k].Name = ask.name =>
                           /\ ask.ipv4 => output.retv.Servers[k].IPv4Addresses = <<>>
                           /\ ask.ipv6 => output.retv.Servers[k].IPv6Addresses = <<>>

\* The address lookup for the first of two servers fails and the one for
\* the second succeeds: both are listed, the first without addresses, and
\* the steps of both lookups are in the trace.
C22_Witness ==
    /\ NSSucceeded
    /\ input.lookupIpv4 /\ ~input.lookupIpv6
    /\ input.ns.res.Additional = <<>>
    /\ input.targeted["ns1.ex.com"] = "fail" /\ input.targeted["ns2.ex.com"] = "ok"
    /\ Len(output.retv.Servers) = 2
    /\ output.retv.Servers[1].IPv4Addresses = <<>>
    /\ output.retv.Servers[2].IPv4Addresses = <<"192.0.2.9">>
    /\ Len(output.trace) = 3
    /\ output.status = "NOERROR"

-----------------------------------------------------------------------------
(* C23 *)

\* The (name, class, type) keys of a section's records that are no RRSIG.
SectionKeys(section) ==
    {RRsetKey(section[i].name, section[i].class, section[i].type) :
        i \in {j \in DOMAIN section : section[j].type # "RRSIG"}}

-----------------------------------------------------------------------------
(* C24 *)

InChain == op \in {"chain", "chain: done", "chain: panic"}

PendingZones == [i \in DOMAIN output.pending |-> output.pending[i].zone]

SignedFromAbove ==
    \A z \in {TLD, Leaf} :
        \A i \in DOMAIN world[dsQuestion(z)].answers :
            LET rr == world[dsQuestion(z)].answers[i]
            IN  (rr.type = "RRSIG" /\ rr.covered = "DS") =>
                    rr.signer \in (IF z = Leaf THEN {TLD, rootZone} ELSE {rootZone})

\* In a DNS signed from above the pending calls are for a zone, then its
\* ancestors: never more calls than zones.
C24_EndsWhenSignedFromAbove ==
    (InChain /\ SignedFromAbove) =>
        /\ Len(output.pending) <= Cardinality(Zones)
        /\ \A i, j \in DOMAIN PendingZones : i # j => PendingZones[i] # PendingZones[j]

\* In a DNS signed from above the chain, taken call by call, ends as
\* getDNSKEYs taken as a whole does.
C24_ChainAgreesWithGetDNSKEYs ==
    (op \in {"chain: done", "chain: panic"} /\ SignedFromAbove) =>
        LET g == getDNSKEYs(makeDNSSECValidator(Message(<<>>, <<>>, <<>>)), input.signer,
                            InitSt, MaxNest, FALSE)
        IN  /\ (output.returned = "panic") = g.st.panicked
            /\ (output.returned = "ok") = (g.err = "")
            /\ ~g.st.panicked => output.trace = g.st.trace

\* With an RRSIG over the leaf's DS RRset that names the leaf, the bound
\* on the pending calls is reached, every call for the same zone.
C24_SelfSignedFillsTheBound ==
    ~(/\ InChain
      /\ Len(output.pending) = MaxPending
      /\ \A i \in DOMAIN PendingZones : PendingZones[i] = Leaf)

-----------------------------------------------------------------------------
(* C15 *)

\* The positions of a section's records that belong under key k of the
\* RRSIG map (sig TRUE) or of the RRset map (sig FALSE).
PositionsOf(rrs, k, sig) ==
    {i \in DOMAIN rrs :
        /\ (rrs[i].type = "RRSIG") = sig
        /\ rrs[i].name = k.Name /\ rrs[i].class = k.Class
        /\ (IF sig THEN rrs[i].covered ELSE rrs[i].type) = k.Type}

\* The records at a set of positions, in the order of the section.
RECURSIVE Pick(_, _, _)
Pick(rrs, i, pos) ==
    IF i > Len(rrs) THEN <<>>
    ELSE (IF i \in pos THEN <<rrs[i]>> ELSE <<>>) \o Pick(rrs, i + 1, pos)

\* The number of records in a map of slices.
RECURSIVE Total(_, _)
Total(m, keys) ==
    IF keys = {} THEN 0
    ELSE LET k == CHOOSE x \in keys : TRUE
         IN  Len(m[k]) + Total(m, keys \ {k})

AllKeys(rrs) ==
    {RRsetKey(rrs[i].name, rrs[i].class, t) :
        i \in DOMAIN rrs, t \in {rrs[j].type : j \in DOMAIN rrs}
                                \cup {rrs[j].covered : j \in {x \in DOMAIN rrs :
                                                                rrs[x].type = "RRSIG"}}}

\* C15: splitRRsetsAndSigs files every RRSIG in the signature map only,
\* under (name, class, TypeCovered), and every other record in the RRset
\* map only, under (name, class, type); each group holds its records in
\* section order, and the groups together hold every record once.
C15_SplitPartitions ==
    op = "splitRRsetsAndSigs" =>
        /\ \A k \in AllKeys(input) :
              /\ k \in DOMAIN output.typeToRRSigs <=> PositionsOf(input, k, TRUE) # {}
              /\ k \in DOMAIN output.typeToRRSets <=> PositionsOf(input, k, FALSE) # {}
        /\ DOMAIN output.typeToRRSigs \cup DOMAIN output.typeToRRSets \subseteq AllKeys(input)
        /\ \A k \in DOMAIN output.typeToRRSigs :
              output.typeToRRSigs[k] = Pick(input, 1, PositionsOf(input, k, TRUE))
        /\ \A k \in DOMAIN output.typeToRRSets :
              output.typeToRRSets[k] = Pick(input, 1, PositionsOf(input, k, FALSE))
        /\ Total(output.typeToRRSigs, DOMAIN output.typeToRRSigs)
             + Total(output.typeToRRSets, DOMAIN output.typeToRRSets) = Len(input)

\* A section with RRSIGs between the records, a record delivered twice,
\* and two RRSIGs for one RRset apart from each other.
C15_Witness ==
    /\ op = "splitRRsetsAndSigs"
    /\ Len(input) > 4
    /\ input[1].type = "RRSIG"
    /\ \E k \in DOMAIN output.typeToRRSets : Len(output.typeToRRSets[k]) = 2
    /\ \E k \in DOMAIN output.typeToRRSigs :
          /\ Len(output.typeToRRSigs[k]) = 2
          /\ k \in DOMAIN output.typeToRRSets

====
